---- MODULE Spec2Model ----
(***************************************************************************)
(* A model of ASFcsvFromHtml.py: the line scan that turns the issue        *)
(* listing into story records (soup_to_dataframe), the name formatter      *)
(* (last_first), the alias resolver (change_aliases) and the two column    *)
(* assignments of the main script.                                         *)
(*                                                                         *)
(* A Python str is modelled as a sequence of one-character strings, so     *)
(* that strip, split, the regular expressions and the substring test are   *)
(* computed character by character.  None is the empty tuple <<>> and a    *)
(* present optional value x is the one-element tuple <<x>>.                *)
(***************************************************************************)
EXTENDS Integers, Sequences, FiniteSets, TLC

VARIABLES
    lines,          \* soup_to_dataframe: the list text.splitlines()
    line_num,       \* soup_to_dataframe: lines consumed by the for loop
    is_issue_line,  \* soup_to_dataframe: loop local, as left by the last iteration
    current_issue,  \* soup_to_dataframe: None or the stripped header line
    num_stories,    \* soup_to_dataframe: stories counted since the last header
    records,        \* soup_to_dataframe: the list of record dictionaries
    diagnostics,    \* what the scan has printed: one entry per print call
    pen_map,        \* module global: canonical name -> pen names
    spell_map,      \* module global: canonical name -> spelling variants
    stories,        \* module global: the rows of the dataframe
    pc,             \* position of the main script
    error,          \* the exception that ended the script, "" if none
    name,           \* argument of a direct call of last_first
    author,         \* argument of a direct call of change_aliases
    namemap,        \* argument of a direct call of change_aliases
    ret             \* None, or the outcome of the direct call

vars == <<lines, line_num, is_issue_line, current_issue, num_stories, records,
          diagnostics, pen_map, spell_map, stories, pc, error, name, author,
          namemap, ret>>

scan_vars == <<lines, line_num, is_issue_line, current_issue, num_stories,
               records, diagnostics>>
main_vars == <<pen_map, spell_map, stories, pc, error>>
call_vars == <<name, author, namemap, ret>>

(***************************************************************************)
(* Strings                                                                 *)
(***************************************************************************)

\* The characters of a string literal, as a sequence.
S(s) == [i \in 1..Len(s) |-> SubSeq(s, i, i)]

None == <<>>
Some(x) == <<x>>

\* The outcome of a call: a returned value or a raised exception.
Returned(v) == [exc |-> "", value |-> v]
Raised(e) == [exc |-> e, value |-> <<>>]

Min(set) == CHOOSE x \in set : \A y \in set : x <= y
Max(set) == CHOOSE x \in set : \A y \in set : x >= y

\* A character is a string.  A code point up to U+00FF is the string of that
\* one character; a code point that a string literal cannot hold, which are
\* U+0000, U+0060 and those above U+00FF, is the string "U+" followed by its
\* hexadecimal digits, four at least, as in "U+0661" and "U+1D7CE".
Named(c) == Len(c) > 1

\* The whitespace of str.strip(), str.split() and the class \s of a str
\* pattern, which are the characters of str.isspace(): U+0009-U+000D,
\* U+001C-U+001F, U+0020, U+0085, U+00A0 and those above U+00FF.
SpaceChars ==
    {"\t", "\n", "", "\f", "\r", "", "", "", "", " ",
     "", " ", "U+1680", "U+2000", "U+2001", "U+2002", "U+2003", "U+2004", "U+2005", "U+2006",
     "U+2007", "U+2008", "U+2009", "U+200A", "U+2028", "U+2029", "U+202F", "U+205F", "U+3000"}

\* str.isspace.
IsSpace(c) == c \in SpaceChars

\* The decimal digits (category Nd).
DigitChars ==
    {"0", "1", "2", "3", "4", "5", "6", "7",
     "8", "9", "U+0660", "U+0661", "U+0662", "U+0663", "U+0664", "U+0665",
     "U+0666", "U+0667", "U+0668", "U+0669", "U+06F0", "U+06F1", "U+06F2", "U+06F3",
     "U+06F4", "U+06F5", "U+06F6", "U+06F7", "U+06F8", "U+06F9", "U+07C0", "U+07C1",
     "U+07C2", "U+07C3", "U+07C4", "U+07C5", "U+07C6", "U+07C7", "U+07C8", "U+07C9",
     "U+0966", "U+0967", "U+0968", "U+0969", "U+096A", "U+096B", "U+096C", "U+096D",
     "U+096E", "U+096F", "U+09E6", "U+09E7", "U+09E8", "U+09E9", "U+09EA", "U+09EB",
     "U+09EC", "U+09ED", "U+09EE", "U+09EF", "U+0A66", "U+0A67", "U+0A68", "U+0A69",
     "U+0A6A", "U+0A6B", "U+0A6C", "U+0A6D", "U+0A6E", "U+0A6F", "U+0AE6", "U+0AE7",
     "U+0AE8", "U+0AE9", "U+0AEA", "U+0AEB", "U+0AEC", "U+0AED", "U+0AEE", "U+0AEF",
     "U+0B66", "U+0B67", "U+0B68", "U+0B69", "U+0B6A", "U+0B6B", "U+0B6C", "U+0B6D",
     "U+0B6E", "U+0B6F", "U+0BE6", "U+0BE7", "U+0BE8", "U+0BE9", "U+0BEA", "U+0BEB",
     "U+0BEC", "U+0BED", "U+0BEE", "U+0BEF", "U+0C66", "U+0C67", "U+0C68", "U+0C69",
     "U+0C6A", "U+0C6B", "U+0C6C", "U+0C6D", "U+0C6E", "U+0C6F", "U+0CE6", "U+0CE7",
     "U+0CE8", "U+0CE9", "U+0CEA", "U+0CEB", "U+0CEC", "U+0CED", "U+0CEE", "U+0CEF",
     "U+0D66", "U+0D67", "U+0D68", "U+0D69", "U+0D6A", "U+0D6B", "U+0D6C", "U+0D6D",
     "U+0D6E", "U+0D6F", "U+0DE6", "U+0DE7", "U+0DE8", "U+0DE9", "U+0DEA", "U+0DEB",
     "U+0DEC", "U+0DED", "U+0DEE", "U+0DEF", "U+0E50", "U+0E51", "U+0E52", "U+0E53",
     "U+0E54", "U+0E55", "U+0E56", "U+0E57", "U+0E58", "U+0E59", "U+0ED0", "U+0ED1",
     "U+0ED2", "U+0ED3", "U+0ED4", "U+0ED5", "U+0ED6", "U+0ED7", "U+0ED8", "U+0ED9",
     "U+0F20", "U+0F21", "U+0F22", "U+0F23", "U+0F24", "U+0F25", "U+0F26", "U+0F27",
     "U+0F28", "U+0F29", "U+1040", "U+1041", "U+1042", "U+1043", "U+1044", "U+1045",
     "U+1046", "U+1047", "U+1048", "U+1049", "U+1090", "U+1091", "U+1092", "U+1093",
     "U+1094", "U+1095", "U+1096", "U+1097", "U+1098", "U+1099", "U+17E0", "U+17E1",
     "U+17E2", "U+17E3", "U+17E4", "U+17E5", "U+17E6", "U+17E7", "U+17E8", "U+17E9",
     "U+1810", "U+1811", "U+1812", "U+1813", "U+1814", "U+1815", "U+1816", "U+1817",
     "U+1818", "U+1819", "U+1946", "U+1947", "U+1948", "U+1949", "U+194A", "U+194B",
     "U+194C", "U+194D", "U+194E", "U+194F", "U+19D0", "U+19D1", "U+19D2", "U+19D3",
     "U+19D4", "U+19D5", "U+19D6", "U+19D7", "U+19D8", "U+19D9", "U+1A80", "U+1A81",
     "U+1A82", "U+1A83", "U+1A84", "U+1A85", "U+1A86", "U+1A87", "U+1A88", "U+1A89",
     "U+1A90", "U+1A91", "U+1A92", "U+1A93", "U+1A94", "U+1A95", "U+1A96", "U+1A97",
     "U+1A98", "U+1A99", "U+1B50", "U+1B51", "U+1B52", "U+1B53", "U+1B54", "U+1B55",
     "U+1B56", "U+1B57", "U+1B58", "U+1B59", "U+1BB0", "U+1BB1", "U+1BB2", "U+1BB3",
     "U+1BB4", "U+1BB5", "U+1BB6", "U+1BB7", "U+1BB8", "U+1BB9", "U+1C40", "U+1C41",
     "U+1C42", "U+1C43", "U+1C44", "U+1C45", "U+1C46", "U+1C47", "U+1C48", "U+1C49",
     "U+1C50", "U+1C51", "U+1C52", "U+1C53", "U+1C54", "U+1C55", "U+1C56", "U+1C57",
     "U+1C58", "U+1C59", "U+A620", "U+A621", "U+A622", "U+A623", "U+A624", "U+A625",
     "U+A626", "U+A627", "U+A628", "U+A629", "U+A8D0", "U+A8D1", "U+A8D2", "U+A8D3",
     "U+A8D4", "U+A8D5", "U+A8D6", "U+A8D7", "U+A8D8", "U+A8D9", "U+A900", "U+A901",
     "U+A902", "U+A903", "U+A904", "U+A905", "U+A906", "U+A907", "U+A908", "U+A909",
     "U+A9D0", "U+A9D1", "U+A9D2", "U+A9D3", "U+A9D4", "U+A9D5", "U+A9D6", "U+A9D7",
     "U+A9D8", "U+A9D9", "U+A9F0", "U+A9F1", "U+A9F2", "U+A9F3", "U+A9F4", "U+A9F5",
     "U+A9F6", "U+A9F7", "U+A9F8", "U+A9F9", "U+AA50", "U+AA51", "U+AA52", "U+AA53",
     "U+AA54", "U+AA55", "U+AA56", "U+AA57", "U+AA58", "U+AA59", "U+ABF0", "U+ABF1",
     "U+ABF2", "U+ABF3", "U+ABF4", "U+ABF5", "U+ABF6", "U+ABF7", "U+ABF8", "U+ABF9",
     "U+FF10", "U+FF11", "U+FF12", "U+FF13", "U+FF14", "U+FF15", "U+FF16", "U+FF17",
     "U+FF18", "U+FF19", "U+104A0", "U+104A1", "U+104A2", "U+104A3", "U+104A4", "U+104A5",
     "U+104A6", "U+104A7", "U+104A8", "U+104A9", "U+10D30", "U+10D31", "U+10D32", "U+10D33",
     "U+10D34", "U+10D35", "U+10D36", "U+10D37", "U+10D38", "U+10D39", "U+11066", "U+11067",
     "U+11068", "U+11069", "U+1106A", "U+1106B", "U+1106C", "U+1106D", "U+1106E", "U+1106F",
     "U+110F0", "U+110F1", "U+110F2", "U+110F3", "U+110F4", "U+110F5", "U+110F6", "U+110F7",
     "U+110F8", "U+110F9", "U+11136", "U+11137", "U+11138", "U+11139", "U+1113A", "U+1113B",
     "U+1113C", "U+1113D", "U+1113E", "U+1113F", "U+111D0", "U+111D1", "U+111D2", "U+111D3",
     "U+111D4", "U+111D5", "U+111D6", "U+111D7", "U+111D8", "U+111D9", "U+112F0", "U+112F1",
     "U+112F2", "U+112F3", "U+112F4", "U+112F5", "U+112F6", "U+112F7", "U+112F8", "U+112F9",
     "U+11450", "U+11451", "U+11452", "U+11453", "U+11454", "U+11455", "U+11456", "U+11457",
     "U+11458", "U+11459", "U+114D0", "U+114D1", "U+114D2", "U+114D3", "U+114D4", "U+114D5",
     "U+114D6", "U+114D7", "U+114D8", "U+114D9", "U+11650", "U+11651", "U+11652", "U+11653",
     "U+11654", "U+11655", "U+11656", "U+11657", "U+11658", "U+11659", "U+116C0", "U+116C1",
     "U+116C2", "U+116C3", "U+116C4", "U+116C5", "U+116C6", "U+116C7", "U+116C8", "U+116C9",
     "U+11730", "U+11731", "U+11732", "U+11733", "U+11734", "U+11735", "U+11736", "U+11737",
     "U+11738", "U+11739", "U+118E0", "U+118E1", "U+118E2", "U+118E3", "U+118E4", "U+118E5",
     "U+118E6", "U+118E7", "U+118E8", "U+118E9", "U+11950", "U+11951", "U+11952", "U+11953",
     "U+11954", "U+11955", "U+11956", "U+11957", "U+11958", "U+11959", "U+11C50", "U+11C51",
     "U+11C52", "U+11C53", "U+11C54", "U+11C55", "U+11C56", "U+11C57", "U+11C58", "U+11C59",
     "U+11D50", "U+11D51", "U+11D52", "U+11D53", "U+11D54", "U+11D55", "U+11D56", "U+11D57",
     "U+11D58", "U+11D59", "U+11DA0", "U+11DA1", "U+11DA2", "U+11DA3", "U+11DA4", "U+11DA5",
     "U+11DA6", "U+11DA7", "U+11DA8", "U+11DA9", "U+16A60", "U+16A61", "U+16A62", "U+16A63",
     "U+16A64", "U+16A65", "U+16A66", "U+16A67", "U+16A68", "U+16A69", "U+16AC0", "U+16AC1",
     "U+16AC2", "U+16AC3", "U+16AC4", "U+16AC5", "U+16AC6", "U+16AC7", "U+16AC8", "U+16AC9",
     "U+16B50", "U+16B51", "U+16B52", "U+16B53", "U+16B54", "U+16B55", "U+16B56", "U+16B57",
     "U+16B58", "U+16B59", "U+1D7CE", "U+1D7CF", "U+1D7D0", "U+1D7D1", "U+1D7D2", "U+1D7D3",
     "U+1D7D4", "U+1D7D5", "U+1D7D6", "U+1D7D7", "U+1D7D8", "U+1D7D9", "U+1D7DA", "U+1D7DB",
     "U+1D7DC", "U+1D7DD", "U+1D7DE", "U+1D7DF", "U+1D7E0", "U+1D7E1", "U+1D7E2", "U+1D7E3",
     "U+1D7E4", "U+1D7E5", "U+1D7E6", "U+1D7E7", "U+1D7E8", "U+1D7E9", "U+1D7EA", "U+1D7EB",
     "U+1D7EC", "U+1D7ED", "U+1D7EE", "U+1D7EF", "U+1D7F0", "U+1D7F1", "U+1D7F2", "U+1D7F3",
     "U+1D7F4", "U+1D7F5", "U+1D7F6", "U+1D7F7", "U+1D7F8", "U+1D7F9", "U+1D7FA", "U+1D7FB",
     "U+1D7FC", "U+1D7FD", "U+1D7FE", "U+1D7FF", "U+1E140", "U+1E141", "U+1E142", "U+1E143",
     "U+1E144", "U+1E145", "U+1E146", "U+1E147", "U+1E148", "U+1E149", "U+1E2F0", "U+1E2F1",
     "U+1E2F2", "U+1E2F3", "U+1E2F4", "U+1E2F5", "U+1E2F6", "U+1E2F7", "U+1E2F8", "U+1E2F9",
     "U+1E950", "U+1E951", "U+1E952", "U+1E953", "U+1E954", "U+1E955", "U+1E956", "U+1E957",
     "U+1E958", "U+1E959", "U+1FBF0", "U+1FBF1", "U+1FBF2", "U+1FBF3", "U+1FBF4", "U+1FBF5",
     "U+1FBF6", "U+1FBF7", "U+1FBF8", "U+1FBF9"}

\* The regular expression class \d of a str pattern: every decimal digit.
IsDigit(c) == c \in DigitChars

\* The characters up to U+00FF that str.lower changes, and what it makes of
\* them.
UpperCase ==
    <<"A", "B", "C", "D", "E", "F", "G", "H", "I", "J", "K", "L", "M", "N",
      "O", "P", "Q", "R", "S", "T", "U", "V", "W", "X", "Y", "Z", "À", "Á",
      "Â", "Ã", "Ä", "Å", "Æ", "Ç", "È", "É", "Ê", "Ë", "Ì", "Í", "Î", "Ï",
      "Ð", "Ñ", "Ò", "Ó", "Ô", "Õ", "Ö", "Ø", "Ù", "Ú", "Û", "Ü", "Ý", "Þ">>

LowerCase ==
    <<"a", "b", "c", "d", "e", "f", "g", "h", "i", "j", "k", "l", "m", "n",
      "o", "p", "q", "r", "s", "t", "u", "v", "w", "x", "y", "z", "à", "á",
      "â", "ã", "ä", "å", "æ", "ç", "è", "é", "ê", "ë", "ì", "í", "î", "ï",
      "ð", "ñ", "ò", "ó", "ô", "õ", "ö", "ø", "ù", "ú", "û", "ü", "ý", "þ">>

\* The characters above U+00FF that str.lower changes into one character,
\* and what it makes of them.
UpperNamed ==
    <<"U+0100", "U+0102", "U+0104", "U+0106", "U+0108", "U+010A", "U+010C", "U+010E",
      "U+0110", "U+0112", "U+0114", "U+0116", "U+0118", "U+011A", "U+011C", "U+011E",
      "U+0120", "U+0122", "U+0124", "U+0126", "U+0128", "U+012A", "U+012C", "U+012E",
      "U+0132", "U+0134", "U+0136", "U+0139", "U+013B", "U+013D", "U+013F", "U+0141",
      "U+0143", "U+0145", "U+0147", "U+014A", "U+014C", "U+014E", "U+0150", "U+0152",
      "U+0154", "U+0156", "U+0158", "U+015A", "U+015C", "U+015E", "U+0160", "U+0162",
      "U+0164", "U+0166", "U+0168", "U+016A", "U+016C", "U+016E", "U+0170", "U+0172",
      "U+0174", "U+0176", "U+0178", "U+0179", "U+017B", "U+017D", "U+0181", "U+0182",
      "U+0184", "U+0186", "U+0187", "U+0189", "U+018A", "U+018B", "U+018E", "U+018F",
      "U+0190", "U+0191", "U+0193", "U+0194", "U+0196", "U+0197", "U+0198", "U+019C",
      "U+019D", "U+019F", "U+01A0", "U+01A2", "U+01A4", "U+01A6", "U+01A7", "U+01A9",
      "U+01AC", "U+01AE", "U+01AF", "U+01B1", "U+01B2", "U+01B3", "U+01B5", "U+01B7",
      "U+01B8", "U+01BC", "U+01C4", "U+01C5", "U+01C7", "U+01C8", "U+01CA", "U+01CB",
      "U+01CD", "U+01CF", "U+01D1", "U+01D3", "U+01D5", "U+01D7", "U+01D9", "U+01DB",
      "U+01DE", "U+01E0", "U+01E2", "U+01E4", "U+01E6", "U+01E8", "U+01EA", "U+01EC",
      "U+01EE", "U+01F1", "U+01F2", "U+01F4", "U+01F6", "U+01F7", "U+01F8", "U+01FA",
      "U+01FC", "U+01FE", "U+0200", "U+0202", "U+0204", "U+0206", "U+0208", "U+020A",
      "U+020C", "U+020E", "U+0210", "U+0212", "U+0214", "U+0216", "U+0218", "U+021A",
      "U+021C", "U+021E", "U+0220", "U+0222", "U+0224", "U+0226", "U+0228", "U+022A",
      "U+022C", "U+022E", "U+0230", "U+0232", "U+023A", "U+023B", "U+023D", "U+023E",
      "U+0241", "U+0243", "U+0244", "U+0245", "U+0246", "U+0248", "U+024A", "U+024C",
      "U+024E", "U+0370", "U+0372", "U+0376", "U+037F", "U+0386", "U+0388", "U+0389",
      "U+038A", "U+038C", "U+038E", "U+038F", "U+0391", "U+0392", "U+0393", "U+0394",
      "U+0395", "U+0396", "U+0397", "U+0398", "U+0399", "U+039A", "U+039B", "U+039C",
      "U+039D", "U+039E", "U+039F", "U+03A0", "U+03A1", "U+03A3", "U+03A4", "U+03A5",
      "U+03A6", "U+03A7", "U+03A8", "U+03A9", "U+03AA", "U+03AB", "U+03CF", "U+03D8",
      "U+03DA", "U+03DC", "U+03DE", "U+03E0", "U+03E2", "U+03E4", "U+03E6", "U+03E8",
      "U+03EA", "U+03EC", "U+03EE", "U+03F4", "U+03F7", "U+03F9", "U+03FA", "U+03FD",
      "U+03FE", "U+03FF", "U+0400", "U+0401", "U+0402", "U+0403", "U+0404", "U+0405",
      "U+0406", "U+0407", "U+0408", "U+0409", "U+040A", "U+040B", "U+040C", "U+040D",
      "U+040E", "U+040F", "U+0410", "U+0411", "U+0412", "U+0413", "U+0414", "U+0415",
      "U+0416", "U+0417", "U+0418", "U+0419", "U+041A", "U+041B", "U+041C", "U+041D",
      "U+041E", "U+041F", "U+0420", "U+0421", "U+0422", "U+0423", "U+0424", "U+0425",
      "U+0426", "U+0427", "U+0428", "U+0429", "U+042A", "U+042B", "U+042C", "U+042D",
      "U+042E", "U+042F", "U+0460", "U+0462", "U+0464", "U+0466", "U+0468", "U+046A",
      "U+046C", "U+046E", "U+0470", "U+0472", "U+0474", "U+0476", "U+0478", "U+047A",
      "U+047C", "U+047E", "U+0480", "U+048A", "U+048C", "U+048E", "U+0490", "U+0492",
      "U+0494", "U+0496", "U+0498", "U+049A", "U+049C", "U+049E", "U+04A0", "U+04A2",
      "U+04A4", "U+04A6", "U+04A8", "U+04AA", "U+04AC", "U+04AE", "U+04B0", "U+04B2",
      "U+04B4", "U+04B6", "U+04B8", "U+04BA", "U+04BC", "U+04BE", "U+04C0", "U+04C1",
      "U+04C3", "U+04C5", "U+04C7", "U+04C9", "U+04CB", "U+04CD", "U+04D0", "U+04D2",
      "U+04D4", "U+04D6", "U+04D8", "U+04DA", "U+04DC", "U+04DE", "U+04E0", "U+04E2",
      "U+04E4", "U+04E6", "U+04E8", "U+04EA", "U+04EC", "U+04EE", "U+04F0", "U+04F2",
      "U+04F4", "U+04F6", "U+04F8", "U+04FA", "U+04FC", "U+04FE", "U+0500", "U+0502",
      "U+0504", "U+0506", "U+0508", "U+050A", "U+050C", "U+050E", "U+0510", "U+0512",
      "U+0514", "U+0516", "U+0518", "U+051A", "U+051C", "U+051E", "U+0520", "U+0522",
      "U+0524", "U+0526", "U+0528", "U+052A", "U+052C", "U+052E", "U+0531", "U+0532",
      "U+0533", "U+0534", "U+0535", "U+0536", "U+0537", "U+0538", "U+0539", "U+053A",
      "U+053B", "U+053C", "U+053D", "U+053E", "U+053F", "U+0540", "U+0541", "U+0542",
      "U+0543", "U+0544", "U+0545", "U+0546", "U+0547", "U+0548", "U+0549", "U+054A",
      "U+054B", "U+054C", "U+054D", "U+054E", "U+054F", "U+0550", "U+0551", "U+0552",
      "U+0553", "U+0554", "U+0555", "U+0556", "U+10A0", "U+10A1", "U+10A2", "U+10A3",
      "U+10A4", "U+10A5", "U+10A6", "U+10A7", "U+10A8", "U+10A9", "U+10AA", "U+10AB",
      "U+10AC", "U+10AD", "U+10AE", "U+10AF", "U+10B0", "U+10B1", "U+10B2", "U+10B3",
      "U+10B4", "U+10B5", "U+10B6", "U+10B7", "U+10B8", "U+10B9", "U+10BA", "U+10BB",
      "U+10BC", "U+10BD", "U+10BE", "U+10BF", "U+10C0", "U+10C1", "U+10C2", "U+10C3",
      "U+10C4", "U+10C5", "U+10C7", "U+10CD", "U+13A0", "U+13A1", "U+13A2", "U+13A3",
      "U+13A4", "U+13A5", "U+13A6", "U+13A7", "U+13A8", "U+13A9", "U+13AA", "U+13AB",
      "U+13AC", "U+13AD", "U+13AE", "U+13AF", "U+13B0", "U+13B1", "U+13B2", "U+13B3",
      "U+13B4", "U+13B5", "U+13B6", "U+13B7", "U+13B8", "U+13B9", "U+13BA", "U+13BB",
      "U+13BC", "U+13BD", "U+13BE", "U+13BF", "U+13C0", "U+13C1", "U+13C2", "U+13C3",
      "U+13C4", "U+13C5", "U+13C6", "U+13C7", "U+13C8", "U+13C9", "U+13CA", "U+13CB",
      "U+13CC", "U+13CD", "U+13CE", "U+13CF", "U+13D0", "U+13D1", "U+13D2", "U+13D3",
      "U+13D4", "U+13D5", "U+13D6", "U+13D7", "U+13D8", "U+13D9", "U+13DA", "U+13DB",
      "U+13DC", "U+13DD", "U+13DE", "U+13DF", "U+13E0", "U+13E1", "U+13E2", "U+13E3",
      "U+13E4", "U+13E5", "U+13E6", "U+13E7", "U+13E8", "U+13E9", "U+13EA", "U+13EB",
      "U+13EC", "U+13ED", "U+13EE", "U+13EF", "U+13F0", "U+13F1", "U+13F2", "U+13F3",
      "U+13F4", "U+13F5", "U+1C90", "U+1C91", "U+1C92", "U+1C93", "U+1C94", "U+1C95",
      "U+1C96", "U+1C97", "U+1C98", "U+1C99", "U+1C9A", "U+1C9B", "U+1C9C", "U+1C9D",
      "U+1C9E", "U+1C9F", "U+1CA0", "U+1CA1", "U+1CA2", "U+1CA3", "U+1CA4", "U+1CA5",
      "U+1CA6", "U+1CA7", "U+1CA8", "U+1CA9", "U+1CAA", "U+1CAB", "U+1CAC", "U+1CAD",
      "U+1CAE", "U+1CAF", "U+1CB0", "U+1CB1", "U+1CB2", "U+1CB3", "U+1CB4", "U+1CB5",
      "U+1CB6", "U+1CB7", "U+1CB8", "U+1CB9", "U+1CBA", "U+1CBD", "U+1CBE", "U+1CBF",
      "U+1E00", "U+1E02", "U+1E04", "U+1E06", "U+1E08", "U+1E0A", "U+1E0C", "U+1E0E",
      "U+1E10", "U+1E12", "U+1E14", "U+1E16", "U+1E18", "U+1E1A", "U+1E1C", "U+1E1E",
      "U+1E20", "U+1E22", "U+1E24", "U+1E26", "U+1E28", "U+1E2A", "U+1E2C", "U+1E2E",
      "U+1E30", "U+1E32", "U+1E34", "U+1E36", "U+1E38", "U+1E3A", "U+1E3C", "U+1E3E",
      "U+1E40", "U+1E42", "U+1E44", "U+1E46", "U+1E48", "U+1E4A", "U+1E4C", "U+1E4E",
      "U+1E50", "U+1E52", "U+1E54", "U+1E56", "U+1E58", "U+1E5A", "U+1E5C", "U+1E5E",
      "U+1E60", "U+1E62", "U+1E64", "U+1E66", "U+1E68", "U+1E6A", "U+1E6C", "U+1E6E",
      "U+1E70", "U+1E72", "U+1E74", "U+1E76", "U+1E78", "U+1E7A", "U+1E7C", "U+1E7E",
      "U+1E80", "U+1E82", "U+1E84", "U+1E86", "U+1E88", "U+1E8A", "U+1E8C", "U+1E8E",
      "U+1E90", "U+1E92", "U+1E94", "U+1E9E", "U+1EA0", "U+1EA2", "U+1EA4", "U+1EA6",
      "U+1EA8", "U+1EAA", "U+1EAC", "U+1EAE", "U+1EB0", "U+1EB2", "U+1EB4", "U+1EB6",
      "U+1EB8", "U+1EBA", "U+1EBC", "U+1EBE", "U+1EC0", "U+1EC2", "U+1EC4", "U+1EC6",
      "U+1EC8", "U+1ECA", "U+1ECC", "U+1ECE", "U+1ED0", "U+1ED2", "U+1ED4", "U+1ED6",
      "U+1ED8", "U+1EDA", "U+1EDC", "U+1EDE", "U+1EE0", "U+1EE2", "U+1EE4", "U+1EE6",
      "U+1EE8", "U+1EEA", "U+1EEC", "U+1EEE", "U+1EF0", "U+1EF2", "U+1EF4", "U+1EF6",
      "U+1EF8", "U+1EFA", "U+1EFC", "U+1EFE", "U+1F08", "U+1F09", "U+1F0A", "U+1F0B",
      "U+1F0C", "U+1F0D", "U+1F0E", "U+1F0F", "U+1F18", "U+1F19", "U+1F1A", "U+1F1B",
      "U+1F1C", "U+1F1D", "U+1F28", "U+1F29", "U+1F2A", "U+1F2B", "U+1F2C", "U+1F2D",
      "U+1F2E", "U+1F2F", "U+1F38", "U+1F39", "U+1F3A", "U+1F3B", "U+1F3C", "U+1F3D",
      "U+1F3E", "U+1F3F", "U+1F48", "U+1F49", "U+1F4A", "U+1F4B", "U+1F4C", "U+1F4D",
      "U+1F59", "U+1F5B", "U+1F5D", "U+1F5F", "U+1F68", "U+1F69", "U+1F6A", "U+1F6B",
      "U+1F6C", "U+1F6D", "U+1F6E", "U+1F6F", "U+1F88", "U+1F89", "U+1F8A", "U+1F8B",
      "U+1F8C", "U+1F8D", "U+1F8E", "U+1F8F", "U+1F98", "U+1F99", "U+1F9A", "U+1F9B",
      "U+1F9C", "U+1F9D", "U+1F9E", "U+1F9F", "U+1FA8", "U+1FA9", "U+1FAA", "U+1FAB",
      "U+1FAC", "U+1FAD", "U+1FAE", "U+1FAF", "U+1FB8", "U+1FB9", "U+1FBA", "U+1FBB",
      "U+1FBC", "U+1FC8", "U+1FC9", "U+1FCA", "U+1FCB", "U+1FCC", "U+1FD8", "U+1FD9",
      "U+1FDA", "U+1FDB", "U+1FE8", "U+1FE9", "U+1FEA", "U+1FEB", "U+1FEC", "U+1FF8",
      "U+1FF9", "U+1FFA", "U+1FFB", "U+1FFC", "U+2126", "U+212A", "U+212B", "U+2132",
      "U+2160", "U+2161", "U+2162", "U+2163", "U+2164", "U+2165", "U+2166", "U+2167",
      "U+2168", "U+2169", "U+216A", "U+216B", "U+216C", "U+216D", "U+216E", "U+216F",
      "U+2183", "U+24B6", "U+24B7", "U+24B8", "U+24B9", "U+24BA", "U+24BB", "U+24BC",
      "U+24BD", "U+24BE", "U+24BF", "U+24C0", "U+24C1", "U+24C2", "U+24C3", "U+24C4",
      "U+24C5", "U+24C6", "U+24C7", "U+24C8", "U+24C9", "U+24CA", "U+24CB", "U+24CC",
      "U+24CD", "U+24CE", "U+24CF", "U+2C00", "U+2C01", "U+2C02", "U+2C03", "U+2C04",
      "U+2C05", "U+2C06", "U+2C07", "U+2C08", "U+2C09", "U+2C0A", "U+2C0B", "U+2C0C",
      "U+2C0D", "U+2C0E", "U+2C0F", "U+2C10", "U+2C11", "U+2C12", "U+2C13", "U+2C14",
      "U+2C15", "U+2C16", "U+2C17", "U+2C18", "U+2C19", "U+2C1A", "U+2C1B", "U+2C1C",
      "U+2C1D", "U+2C1E", "U+2C1F", "U+2C20", "U+2C21", "U+2C22", "U+2C23", "U+2C24",
      "U+2C25", "U+2C26", "U+2C27", "U+2C28", "U+2C29", "U+2C2A", "U+2C2B", "U+2C2C",
      "U+2C2D", "U+2C2E", "U+2C2F", "U+2C60", "U+2C62", "U+2C63", "U+2C64", "U+2C67",
      "U+2C69", "U+2C6B", "U+2C6D", "U+2C6E", "U+2C6F", "U+2C70", "U+2C72", "U+2C75",
      "U+2C7E", "U+2C7F", "U+2C80", "U+2C82", "U+2C84", "U+2C86", "U+2C88", "U+2C8A",
      "U+2C8C", "U+2C8E", "U+2C90", "U+2C92", "U+2C94", "U+2C96", "U+2C98", "U+2C9A",
      "U+2C9C", "U+2C9E", "U+2CA0", "U+2CA2", "U+2CA4", "U+2CA6", "U+2CA8", "U+2CAA",
      "U+2CAC", "U+2CAE", "U+2CB0", "U+2CB2", "U+2CB4", "U+2CB6", "U+2CB8", "U+2CBA",
      "U+2CBC", "U+2CBE", "U+2CC0", "U+2CC2", "U+2CC4", "U+2CC6", "U+2CC8", "U+2CCA",
      "U+2CCC", "U+2CCE", "U+2CD0", "U+2CD2", "U+2CD4", "U+2CD6", "U+2CD8", "U+2CDA",
      "U+2CDC", "U+2CDE", "U+2CE0", "U+2CE2", "U+2CEB", "U+2CED", "U+2CF2", "U+A640",
      "U+A642", "U+A644", "U+A646", "U+A648", "U+A64A", "U+A64C", "U+A64E", "U+A650",
      "U+A652", "U+A654", "U+A656", "U+A658", "U+A65A", "U+A65C", "U+A65E", "U+A660",
      "U+A662", "U+A664", "U+A666", "U+A668", "U+A66A", "U+A66C", "U+A680", "U+A682",
      "U+A684", "U+A686", "U+A688", "U+A68A", "U+A68C", "U+A68E", "U+A690", "U+A692",
      "U+A694", "U+A696", "U+A698", "U+A69A", "U+A722", "U+A724", "U+A726", "U+A728",
      "U+A72A", "U+A72C", "U+A72E", "U+A732", "U+A734", "U+A736", "U+A738", "U+A73A",
      "U+A73C", "U+A73E", "U+A740", "U+A742", "U+A744", "U+A746", "U+A748", "U+A74A",
      "U+A74C", "U+A74E", "U+A750", "U+A752", "U+A754", "U+A756", "U+A758", "U+A75A",
      "U+A75C", "U+A75E", "U+A760", "U+A762", "U+A764", "U+A766", "U+A768", "U+A76A",
      "U+A76C", "U+A76E", "U+A779", "U+A77B", "U+A77D", "U+A77E", "U+A780", "U+A782",
      "U+A784", "U+A786", "U+A78B", "U+A78D", "U+A790", "U+A792", "U+A796", "U+A798",
      "U+A79A", "U+A79C", "U+A79E", "U+A7A0", "U+A7A2", "U+A7A4", "U+A7A6", "U+A7A8",
      "U+A7AA", "U+A7AB", "U+A7AC", "U+A7AD", "U+A7AE", "U+A7B0", "U+A7B1", "U+A7B2",
      "U+A7B3", "U+A7B4", "U+A7B6", "U+A7B8", "U+A7BA", "U+A7BC", "U+A7BE", "U+A7C0",
      "U+A7C2", "U+A7C4", "U+A7C5", "U+A7C6", "U+A7C7", "U+A7C9", "U+A7D0", "U+A7D6",
      "U+A7D8", "U+A7F5", "U+FF21", "U+FF22", "U+FF23", "U+FF24", "U+FF25", "U+FF26",
      "U+FF27", "U+FF28", "U+FF29", "U+FF2A", "U+FF2B", "U+FF2C", "U+FF2D", "U+FF2E",
      "U+FF2F", "U+FF30", "U+FF31", "U+FF32", "U+FF33", "U+FF34", "U+FF35", "U+FF36",
      "U+FF37", "U+FF38", "U+FF39", "U+FF3A", "U+10400", "U+10401", "U+10402", "U+10403",
      "U+10404", "U+10405", "U+10406", "U+10407", "U+10408", "U+10409", "U+1040A", "U+1040B",
      "U+1040C", "U+1040D", "U+1040E", "U+1040F", "U+10410", "U+10411", "U+10412", "U+10413",
      "U+10414", "U+10415", "U+10416", "U+10417", "U+10418", "U+10419", "U+1041A", "U+1041B",
      "U+1041C", "U+1041D", "U+1041E", "U+1041F", "U+10420", "U+10421", "U+10422", "U+10423",
      "U+10424", "U+10425", "U+10426", "U+10427", "U+104B0", "U+104B1", "U+104B2", "U+104B3",
      "U+104B4", "U+104B5", "U+104B6", "U+104B7", "U+104B8", "U+104B9", "U+104BA", "U+104BB",
      "U+104BC", "U+104BD", "U+104BE", "U+104BF", "U+104C0", "U+104C1", "U+104C2", "U+104C3",
      "U+104C4", "U+104C5", "U+104C6", "U+104C7", "U+104C8", "U+104C9", "U+104CA", "U+104CB",
      "U+104CC", "U+104CD", "U+104CE", "U+104CF", "U+104D0", "U+104D1", "U+104D2", "U+104D3",
      "U+10570", "U+10571", "U+10572", "U+10573", "U+10574", "U+10575", "U+10576", "U+10577",
      "U+10578", "U+10579", "U+1057A", "U+1057C", "U+1057D", "U+1057E", "U+1057F", "U+10580",
      "U+10581", "U+10582", "U+10583", "U+10584", "U+10585", "U+10586", "U+10587", "U+10588",
      "U+10589", "U+1058A", "U+1058C", "U+1058D", "U+1058E", "U+1058F", "U+10590", "U+10591",
      "U+10592", "U+10594", "U+10595", "U+10C80", "U+10C81", "U+10C82", "U+10C83", "U+10C84",
      "U+10C85", "U+10C86", "U+10C87", "U+10C88", "U+10C89", "U+10C8A", "U+10C8B", "U+10C8C",
      "U+10C8D", "U+10C8E", "U+10C8F", "U+10C90", "U+10C91", "U+10C92", "U+10C93", "U+10C94",
      "U+10C95", "U+10C96", "U+10C97", "U+10C98", "U+10C99", "U+10C9A", "U+10C9B", "U+10C9C",
      "U+10C9D", "U+10C9E", "U+10C9F", "U+10CA0", "U+10CA1", "U+10CA2", "U+10CA3", "U+10CA4",
      "U+10CA5", "U+10CA6", "U+10CA7", "U+10CA8", "U+10CA9", "U+10CAA", "U+10CAB", "U+10CAC",
      "U+10CAD", "U+10CAE", "U+10CAF", "U+10CB0", "U+10CB1", "U+10CB2", "U+118A0", "U+118A1",
      "U+118A2", "U+118A3", "U+118A4", "U+118A5", "U+118A6", "U+118A7", "U+118A8", "U+118A9",
      "U+118AA", "U+118AB", "U+118AC", "U+118AD", "U+118AE", "U+118AF", "U+118B0", "U+118B1",
      "U+118B2", "U+118B3", "U+118B4", "U+118B5", "U+118B6", "U+118B7", "U+118B8", "U+118B9",
      "U+118BA", "U+118BB", "U+118BC", "U+118BD", "U+118BE", "U+118BF", "U+16E40", "U+16E41",
      "U+16E42", "U+16E43", "U+16E44", "U+16E45", "U+16E46", "U+16E47", "U+16E48", "U+16E49",
      "U+16E4A", "U+16E4B", "U+16E4C", "U+16E4D", "U+16E4E", "U+16E4F", "U+16E50", "U+16E51",
      "U+16E52", "U+16E53", "U+16E54", "U+16E55", "U+16E56", "U+16E57", "U+16E58", "U+16E59",
      "U+16E5A", "U+16E5B", "U+16E5C", "U+16E5D", "U+16E5E", "U+16E5F", "U+1E900", "U+1E901",
      "U+1E902", "U+1E903", "U+1E904", "U+1E905", "U+1E906", "U+1E907", "U+1E908", "U+1E909",
      "U+1E90A", "U+1E90B", "U+1E90C", "U+1E90D", "U+1E90E", "U+1E90F", "U+1E910", "U+1E911",
      "U+1E912", "U+1E913", "U+1E914", "U+1E915", "U+1E916", "U+1E917", "U+1E918", "U+1E919",
      "U+1E91A", "U+1E91B", "U+1E91C", "U+1E91D", "U+1E91E", "U+1E91F", "U+1E920", "U+1E921">>

LowerNamed ==
    <<"U+0101", "U+0103", "U+0105", "U+0107", "U+0109", "U+010B", "U+010D", "U+010F",
      "U+0111", "U+0113", "U+0115", "U+0117", "U+0119", "U+011B", "U+011D", "U+011F",
      "U+0121", "U+0123", "U+0125", "U+0127", "U+0129", "U+012B", "U+012D", "U+012F",
      "U+0133", "U+0135", "U+0137", "U+013A", "U+013C", "U+013E", "U+0140", "U+0142",
      "U+0144", "U+0146", "U+0148", "U+014B", "U+014D", "U+014F", "U+0151", "U+0153",
      "U+0155", "U+0157", "U+0159", "U+015B", "U+015D", "U+015F", "U+0161", "U+0163",
      "U+0165", "U+0167", "U+0169", "U+016B", "U+016D", "U+016F", "U+0171", "U+0173",
      "U+0175", "U+0177", "ÿ", "U+017A", "U+017C", "U+017E", "U+0253", "U+0183",
      "U+0185", "U+0254", "U+0188", "U+0256", "U+0257", "U+018C", "U+01DD", "U+0259",
      "U+025B", "U+0192", "U+0260", "U+0263", "U+0269", "U+0268", "U+0199", "U+026F",
      "U+0272", "U+0275", "U+01A1", "U+01A3", "U+01A5", "U+0280", "U+01A8", "U+0283",
      "U+01AD", "U+0288", "U+01B0", "U+028A", "U+028B", "U+01B4", "U+01B6", "U+0292",
      "U+01B9", "U+01BD", "U+01C6", "U+01C6", "U+01C9", "U+01C9", "U+01CC", "U+01CC",
      "U+01CE", "U+01D0", "U+01D2", "U+01D4", "U+01D6", "U+01D8", "U+01DA", "U+01DC",
      "U+01DF", "U+01E1", "U+01E3", "U+01E5", "U+01E7", "U+01E9", "U+01EB", "U+01ED",
      "U+01EF", "U+01F3", "U+01F3", "U+01F5", "U+0195", "U+01BF", "U+01F9", "U+01FB",
      "U+01FD", "U+01FF", "U+0201", "U+0203", "U+0205", "U+0207", "U+0209", "U+020B",
      "U+020D", "U+020F", "U+0211", "U+0213", "U+0215", "U+0217", "U+0219", "U+021B",
      "U+021D", "U+021F", "U+019E", "U+0223", "U+0225", "U+0227", "U+0229", "U+022B",
      "U+022D", "U+022F", "U+0231", "U+0233", "U+2C65", "U+023C", "U+019A", "U+2C66",
      "U+0242", "U+0180", "U+0289", "U+028C", "U+0247", "U+0249", "U+024B", "U+024D",
      "U+024F", "U+0371", "U+0373", "U+0377", "U+03F3", "U+03AC", "U+03AD", "U+03AE",
      "U+03AF", "U+03CC", "U+03CD", "U+03CE", "U+03B1", "U+03B2", "U+03B3", "U+03B4",
      "U+03B5", "U+03B6", "U+03B7", "U+03B8", "U+03B9", "U+03BA", "U+03BB", "U+03BC",
      "U+03BD", "U+03BE", "U+03BF", "U+03C0", "U+03C1", "U+03C3", "U+03C4", "U+03C5",
      "U+03C6", "U+03C7", "U+03C8", "U+03C9", "U+03CA", "U+03CB", "U+03D7", "U+03D9",
      "U+03DB", "U+03DD", "U+03DF", "U+03E1", "U+03E3", "U+03E5", "U+03E7", "U+03E9",
      "U+03EB", "U+03ED", "U+03EF", "U+03B8", "U+03F8", "U+03F2", "U+03FB", "U+037B",
      "U+037C", "U+037D", "U+0450", "U+0451", "U+0452", "U+0453", "U+0454", "U+0455",
      "U+0456", "U+0457", "U+0458", "U+0459", "U+045A", "U+045B", "U+045C", "U+045D",
      "U+045E", "U+045F", "U+0430", "U+0431", "U+0432", "U+0433", "U+0434", "U+0435",
      "U+0436", "U+0437", "U+0438", "U+0439", "U+043A", "U+043B", "U+043C", "U+043D",
      "U+043E", "U+043F", "U+0440", "U+0441", "U+0442", "U+0443", "U+0444", "U+0445",
      "U+0446", "U+0447", "U+0448", "U+0449", "U+044A", "U+044B", "U+044C", "U+044D",
      "U+044E", "U+044F", "U+0461", "U+0463", "U+0465", "U+0467", "U+0469", "U+046B",
      "U+046D", "U+046F", "U+0471", "U+0473", "U+0475", "U+0477", "U+0479", "U+047B",
      "U+047D", "U+047F", "U+0481", "U+048B", "U+048D", "U+048F", "U+0491", "U+0493",
      "U+0495", "U+0497", "U+0499", "U+049B", "U+049D", "U+049F", "U+04A1", "U+04A3",
      "U+04A5", "U+04A7", "U+04A9", "U+04AB", "U+04AD", "U+04AF", "U+04B1", "U+04B3",
      "U+04B5", "U+04B7", "U+04B9", "U+04BB", "U+04BD", "U+04BF", "U+04CF", "U+04C2",
      "U+04C4", "U+04C6", "U+04C8", "U+04CA", "U+04CC", "U+04CE", "U+04D1", "U+04D3",
      "U+04D5", "U+04D7", "U+04D9", "U+04DB", "U+04DD", "U+04DF", "U+04E1", "U+04E3",
      "U+04E5", "U+04E7", "U+04E9", "U+04EB", "U+04ED", "U+04EF", "U+04F1", "U+04F3",
      "U+04F5", "U+04F7", "U+04F9", "U+04FB", "U+04FD", "U+04FF", "U+0501", "U+0503",
      "U+0505", "U+0507", "U+0509", "U+050B", "U+050D", "U+050F", "U+0511", "U+0513",
      "U+0515", "U+0517", "U+0519", "U+051B", "U+051D", "U+051F", "U+0521", "U+0523",
      "U+0525", "U+0527", "U+0529", "U+052B", "U+052D", "U+052F", "U+0561", "U+0562",
      "U+0563", "U+0564", "U+0565", "U+0566", "U+0567", "U+0568", "U+0569", "U+056A",
      "U+056B", "U+056C", "U+056D", "U+056E", "U+056F", "U+0570", "U+0571", "U+0572",
      "U+0573", "U+0574", "U+0575", "U+0576", "U+0577", "U+0578", "U+0579", "U+057A",
      "U+057B", "U+057C", "U+057D", "U+057E", "U+057F", "U+0580", "U+0581", "U+0582",
      "U+0583", "U+0584", "U+0585", "U+0586", "U+2D00", "U+2D01", "U+2D02", "U+2D03",
      "U+2D04", "U+2D05", "U+2D06", "U+2D07", "U+2D08", "U+2D09", "U+2D0A", "U+2D0B",
      "U+2D0C", "U+2D0D", "U+2D0E", "U+2D0F", "U+2D10", "U+2D11", "U+2D12", "U+2D13",
      "U+2D14", "U+2D15", "U+2D16", "U+2D17", "U+2D18", "U+2D19", "U+2D1A", "U+2D1B",
      "U+2D1C", "U+2D1D", "U+2D1E", "U+2D1F", "U+2D20", "U+2D21", "U+2D22", "U+2D23",
      "U+2D24", "U+2D25", "U+2D27", "U+2D2D", "U+AB70", "U+AB71", "U+AB72", "U+AB73",
      "U+AB74", "U+AB75", "U+AB76", "U+AB77", "U+AB78", "U+AB79", "U+AB7A", "U+AB7B",
      "U+AB7C", "U+AB7D", "U+AB7E", "U+AB7F", "U+AB80", "U+AB81", "U+AB82", "U+AB83",
      "U+AB84", "U+AB85", "U+AB86", "U+AB87", "U+AB88", "U+AB89", "U+AB8A", "U+AB8B",
      "U+AB8C", "U+AB8D", "U+AB8E", "U+AB8F", "U+AB90", "U+AB91", "U+AB92", "U+AB93",
      "U+AB94", "U+AB95", "U+AB96", "U+AB97", "U+AB98", "U+AB99", "U+AB9A", "U+AB9B",
      "U+AB9C", "U+AB9D", "U+AB9E", "U+AB9F", "U+ABA0", "U+ABA1", "U+ABA2", "U+ABA3",
      "U+ABA4", "U+ABA5", "U+ABA6", "U+ABA7", "U+ABA8", "U+ABA9", "U+ABAA", "U+ABAB",
      "U+ABAC", "U+ABAD", "U+ABAE", "U+ABAF", "U+ABB0", "U+ABB1", "U+ABB2", "U+ABB3",
      "U+ABB4", "U+ABB5", "U+ABB6", "U+ABB7", "U+ABB8", "U+ABB9", "U+ABBA", "U+ABBB",
      "U+ABBC", "U+ABBD", "U+ABBE", "U+ABBF", "U+13F8", "U+13F9", "U+13FA", "U+13FB",
      "U+13FC", "U+13FD", "U+10D0", "U+10D1", "U+10D2", "U+10D3", "U+10D4", "U+10D5",
      "U+10D6", "U+10D7", "U+10D8", "U+10D9", "U+10DA", "U+10DB", "U+10DC", "U+10DD",
      "U+10DE", "U+10DF", "U+10E0", "U+10E1", "U+10E2", "U+10E3", "U+10E4", "U+10E5",
      "U+10E6", "U+10E7", "U+10E8", "U+10E9", "U+10EA", "U+10EB", "U+10EC", "U+10ED",
      "U+10EE", "U+10EF", "U+10F0", "U+10F1", "U+10F2", "U+10F3", "U+10F4", "U+10F5",
      "U+10F6", "U+10F7", "U+10F8", "U+10F9", "U+10FA", "U+10FD", "U+10FE", "U+10FF",
      "U+1E01", "U+1E03", "U+1E05", "U+1E07", "U+1E09", "U+1E0B", "U+1E0D", "U+1E0F",
      "U+1E11", "U+1E13", "U+1E15", "U+1E17", "U+1E19", "U+1E1B", "U+1E1D", "U+1E1F",
      "U+1E21", "U+1E23", "U+1E25", "U+1E27", "U+1E29", "U+1E2B", "U+1E2D", "U+1E2F",
      "U+1E31", "U+1E33", "U+1E35", "U+1E37", "U+1E39", "U+1E3B", "U+1E3D", "U+1E3F",
      "U+1E41", "U+1E43", "U+1E45", "U+1E47", "U+1E49", "U+1E4B", "U+1E4D", "U+1E4F",
      "U+1E51", "U+1E53", "U+1E55", "U+1E57", "U+1E59", "U+1E5B", "U+1E5D", "U+1E5F",
      "U+1E61", "U+1E63", "U+1E65", "U+1E67", "U+1E69", "U+1E6B", "U+1E6D", "U+1E6F",
      "U+1E71", "U+1E73", "U+1E75", "U+1E77", "U+1E79", "U+1E7B", "U+1E7D", "U+1E7F",
      "U+1E81", "U+1E83", "U+1E85", "U+1E87", "U+1E89", "U+1E8B", "U+1E8D", "U+1E8F",
      "U+1E91", "U+1E93", "U+1E95", "ß", "U+1EA1", "U+1EA3", "U+1EA5", "U+1EA7",
      "U+1EA9", "U+1EAB", "U+1EAD", "U+1EAF", "U+1EB1", "U+1EB3", "U+1EB5", "U+1EB7",
      "U+1EB9", "U+1EBB", "U+1EBD", "U+1EBF", "U+1EC1", "U+1EC3", "U+1EC5", "U+1EC7",
      "U+1EC9", "U+1ECB", "U+1ECD", "U+1ECF", "U+1ED1", "U+1ED3", "U+1ED5", "U+1ED7",
      "U+1ED9", "U+1EDB", "U+1EDD", "U+1EDF", "U+1EE1", "U+1EE3", "U+1EE5", "U+1EE7",
      "U+1EE9", "U+1EEB", "U+1EED", "U+1EEF", "U+1EF1", "U+1EF3", "U+1EF5", "U+1EF7",
      "U+1EF9", "U+1EFB", "U+1EFD", "U+1EFF", "U+1F00", "U+1F01", "U+1F02", "U+1F03",
      "U+1F04", "U+1F05", "U+1F06", "U+1F07", "U+1F10", "U+1F11", "U+1F12", "U+1F13",
      "U+1F14", "U+1F15", "U+1F20", "U+1F21", "U+1F22", "U+1F23", "U+1F24", "U+1F25",
      "U+1F26", "U+1F27", "U+1F30", "U+1F31", "U+1F32", "U+1F33", "U+1F34", "U+1F35",
      "U+1F36", "U+1F37", "U+1F40", "U+1F41", "U+1F42", "U+1F43", "U+1F44", "U+1F45",
      "U+1F51", "U+1F53", "U+1F55", "U+1F57", "U+1F60", "U+1F61", "U+1F62", "U+1F63",
      "U+1F64", "U+1F65", "U+1F66", "U+1F67", "U+1F80", "U+1F81", "U+1F82", "U+1F83",
      "U+1F84", "U+1F85", "U+1F86", "U+1F87", "U+1F90", "U+1F91", "U+1F92", "U+1F93",
      "U+1F94", "U+1F95", "U+1F96", "U+1F97", "U+1FA0", "U+1FA1", "U+1FA2", "U+1FA3",
      "U+1FA4", "U+1FA5", "U+1FA6", "U+1FA7", "U+1FB0", "U+1FB1", "U+1F70", "U+1F71",
      "U+1FB3", "U+1F72", "U+1F73", "U+1F74", "U+1F75", "U+1FC3", "U+1FD0", "U+1FD1",
      "U+1F76", "U+1F77", "U+1FE0", "U+1FE1", "U+1F7A", "U+1F7B", "U+1FE5", "U+1F78",
      "U+1F79", "U+1F7C", "U+1F7D", "U+1FF3", "U+03C9", "k", "å", "U+214E",
      "U+2170", "U+2171", "U+2172", "U+2173", "U+2174", "U+2175", "U+2176", "U+2177",
      "U+2178", "U+2179", "U+217A", "U+217B", "U+217C", "U+217D", "U+217E", "U+217F",
      "U+2184", "U+24D0", "U+24D1", "U+24D2", "U+24D3", "U+24D4", "U+24D5", "U+24D6",
      "U+24D7", "U+24D8", "U+24D9", "U+24DA", "U+24DB", "U+24DC", "U+24DD", "U+24DE",
      "U+24DF", "U+24E0", "U+24E1", "U+24E2", "U+24E3", "U+24E4", "U+24E5", "U+24E6",
      "U+24E7", "U+24E8", "U+24E9", "U+2C30", "U+2C31", "U+2C32", "U+2C33", "U+2C34",
      "U+2C35", "U+2C36", "U+2C37", "U+2C38", "U+2C39", "U+2C3A", "U+2C3B", "U+2C3C",
      "U+2C3D", "U+2C3E", "U+2C3F", "U+2C40", "U+2C41", "U+2C42", "U+2C43", "U+2C44",
      "U+2C45", "U+2C46", "U+2C47", "U+2C48", "U+2C49", "U+2C4A", "U+2C4B", "U+2C4C",
      "U+2C4D", "U+2C4E", "U+2C4F", "U+2C50", "U+2C51", "U+2C52", "U+2C53", "U+2C54",
      "U+2C55", "U+2C56", "U+2C57", "U+2C58", "U+2C59", "U+2C5A", "U+2C5B", "U+2C5C",
      "U+2C5D", "U+2C5E", "U+2C5F", "U+2C61", "U+026B", "U+1D7D", "U+027D", "U+2C68",
      "U+2C6A", "U+2C6C", "U+0251", "U+0271", "U+0250", "U+0252", "U+2C73", "U+2C76",
      "U+023F", "U+0240", "U+2C81", "U+2C83", "U+2C85", "U+2C87", "U+2C89", "U+2C8B",
      "U+2C8D", "U+2C8F", "U+2C91", "U+2C93", "U+2C95", "U+2C97", "U+2C99", "U+2C9B",
      "U+2C9D", "U+2C9F", "U+2CA1", "U+2CA3", "U+2CA5", "U+2CA7", "U+2CA9", "U+2CAB",
      "U+2CAD", "U+2CAF", "U+2CB1", "U+2CB3", "U+2CB5", "U+2CB7", "U+2CB9", "U+2CBB",
      "U+2CBD", "U+2CBF", "U+2CC1", "U+2CC3", "U+2CC5", "U+2CC7", "U+2CC9", "U+2CCB",
      "U+2CCD", "U+2CCF", "U+2CD1", "U+2CD3", "U+2CD5", "U+2CD7", "U+2CD9", "U+2CDB",
      "U+2CDD", "U+2CDF", "U+2CE1", "U+2CE3", "U+2CEC", "U+2CEE", "U+2CF3", "U+A641",
      "U+A643", "U+A645", "U+A647", "U+A649", "U+A64B", "U+A64D", "U+A64F", "U+A651",
      "U+A653", "U+A655", "U+A657", "U+A659", "U+A65B", "U+A65D", "U+A65F", "U+A661",
      "U+A663", "U+A665", "U+A667", "U+A669", "U+A66B", "U+A66D", "U+A681", "U+A683",
      "U+A685", "U+A687", "U+A689", "U+A68B", "U+A68D", "U+A68F", "U+A691", "U+A693",
      "U+A695", "U+A697", "U+A699", "U+A69B", "U+A723", "U+A725", "U+A727", "U+A729",
      "U+A72B", "U+A72D", "U+A72F", "U+A733", "U+A735", "U+A737", "U+A739", "U+A73B",
      "U+A73D", "U+A73F", "U+A741", "U+A743", "U+A745", "U+A747", "U+A749", "U+A74B",
      "U+A74D", "U+A74F", "U+A751", "U+A753", "U+A755", "U+A757", "U+A759", "U+A75B",
      "U+A75D", "U+A75F", "U+A761", "U+A763", "U+A765", "U+A767", "U+A769", "U+A76B",
      "U+A76D", "U+A76F", "U+A77A", "U+A77C", "U+1D79", "U+A77F", "U+A781", "U+A783",
      "U+A785", "U+A787", "U+A78C", "U+0265", "U+A791", "U+A793", "U+A797", "U+A799",
      "U+A79B", "U+A79D", "U+A79F", "U+A7A1", "U+A7A3", "U+A7A5", "U+A7A7", "U+A7A9",
      "U+0266", "U+025C", "U+0261", "U+026C", "U+026A", "U+029E", "U+0287", "U+029D",
      "U+AB53", "U+A7B5", "U+A7B7", "U+A7B9", "U+A7BB", "U+A7BD", "U+A7BF", "U+A7C1",
      "U+A7C3", "U+A794", "U+0282", "U+1D8E", "U+A7C8", "U+A7CA", "U+A7D1", "U+A7D7",
      "U+A7D9", "U+A7F6", "U+FF41", "U+FF42", "U+FF43", "U+FF44", "U+FF45", "U+FF46",
      "U+FF47", "U+FF48", "U+FF49", "U+FF4A", "U+FF4B", "U+FF4C", "U+FF4D", "U+FF4E",
      "U+FF4F", "U+FF50", "U+FF51", "U+FF52", "U+FF53", "U+FF54", "U+FF55", "U+FF56",
      "U+FF57", "U+FF58", "U+FF59", "U+FF5A", "U+10428", "U+10429", "U+1042A", "U+1042B",
      "U+1042C", "U+1042D", "U+1042E", "U+1042F", "U+10430", "U+10431", "U+10432", "U+10433",
      "U+10434", "U+10435", "U+10436", "U+10437", "U+10438", "U+10439", "U+1043A", "U+1043B",
      "U+1043C", "U+1043D", "U+1043E", "U+1043F", "U+10440", "U+10441", "U+10442", "U+10443",
      "U+10444", "U+10445", "U+10446", "U+10447", "U+10448", "U+10449", "U+1044A", "U+1044B",
      "U+1044C", "U+1044D", "U+1044E", "U+1044F", "U+104D8", "U+104D9", "U+104DA", "U+104DB",
      "U+104DC", "U+104DD", "U+104DE", "U+104DF", "U+104E0", "U+104E1", "U+104E2", "U+104E3",
      "U+104E4", "U+104E5", "U+104E6", "U+104E7", "U+104E8", "U+104E9", "U+104EA", "U+104EB",
      "U+104EC", "U+104ED", "U+104EE", "U+104EF", "U+104F0", "U+104F1", "U+104F2", "U+104F3",
      "U+104F4", "U+104F5", "U+104F6", "U+104F7", "U+104F8", "U+104F9", "U+104FA", "U+104FB",
      "U+10597", "U+10598", "U+10599", "U+1059A", "U+1059B", "U+1059C", "U+1059D", "U+1059E",
      "U+1059F", "U+105A0", "U+105A1", "U+105A3", "U+105A4", "U+105A5", "U+105A6", "U+105A7",
      "U+105A8", "U+105A9", "U+105AA", "U+105AB", "U+105AC", "U+105AD", "U+105AE", "U+105AF",
      "U+105B0", "U+105B1", "U+105B3", "U+105B4", "U+105B5", "U+105B6", "U+105B7", "U+105B8",
      "U+105B9", "U+105BB", "U+105BC", "U+10CC0", "U+10CC1", "U+10CC2", "U+10CC3", "U+10CC4",
      "U+10CC5", "U+10CC6", "U+10CC7", "U+10CC8", "U+10CC9", "U+10CCA", "U+10CCB", "U+10CCC",
      "U+10CCD", "U+10CCE", "U+10CCF", "U+10CD0", "U+10CD1", "U+10CD2", "U+10CD3", "U+10CD4",
      "U+10CD5", "U+10CD6", "U+10CD7", "U+10CD8", "U+10CD9", "U+10CDA", "U+10CDB", "U+10CDC",
      "U+10CDD", "U+10CDE", "U+10CDF", "U+10CE0", "U+10CE1", "U+10CE2", "U+10CE3", "U+10CE4",
      "U+10CE5", "U+10CE6", "U+10CE7", "U+10CE8", "U+10CE9", "U+10CEA", "U+10CEB", "U+10CEC",
      "U+10CED", "U+10CEE", "U+10CEF", "U+10CF0", "U+10CF1", "U+10CF2", "U+118C0", "U+118C1",
      "U+118C2", "U+118C3", "U+118C4", "U+118C5", "U+118C6", "U+118C7", "U+118C8", "U+118C9",
      "U+118CA", "U+118CB", "U+118CC", "U+118CD", "U+118CE", "U+118CF", "U+118D0", "U+118D1",
      "U+118D2", "U+118D3", "U+118D4", "U+118D5", "U+118D6", "U+118D7", "U+118D8", "U+118D9",
      "U+118DA", "U+118DB", "U+118DC", "U+118DD", "U+118DE", "U+118DF", "U+16E60", "U+16E61",
      "U+16E62", "U+16E63", "U+16E64", "U+16E65", "U+16E66", "U+16E67", "U+16E68", "U+16E69",
      "U+16E6A", "U+16E6B", "U+16E6C", "U+16E6D", "U+16E6E", "U+16E6F", "U+16E70", "U+16E71",
      "U+16E72", "U+16E73", "U+16E74", "U+16E75", "U+16E76", "U+16E77", "U+16E78", "U+16E79",
      "U+16E7A", "U+16E7B", "U+16E7C", "U+16E7D", "U+16E7E", "U+16E7F", "U+1E922", "U+1E923",
      "U+1E924", "U+1E925", "U+1E926", "U+1E927", "U+1E928", "U+1E929", "U+1E92A", "U+1E92B",
      "U+1E92C", "U+1E92D", "U+1E92E", "U+1E92F", "U+1E930", "U+1E931", "U+1E932", "U+1E933",
      "U+1E934", "U+1E935", "U+1E936", "U+1E937", "U+1E938", "U+1E939", "U+1E93A", "U+1E93B",
      "U+1E93C", "U+1E93D", "U+1E93E", "U+1E93F", "U+1E940", "U+1E941", "U+1E942", "U+1E943">>

\* The character of lower at the place c has in upper, or c when it has none.
LowerIn(c, upper, lower) ==
    IF \E i \in 1..Len(upper) : upper[i] = c
    THEN lower[CHOOSE i \in 1..Len(upper) : upper[i] = c]
    ELSE c

\* str.lower on one character, for the characters it maps to one character.
LowerChar(c) ==
    IF Named(c) THEN LowerIn(c, UpperNamed, LowerNamed)
    ELSE LowerIn(c, UpperCase, LowerCase)

HexDigits ==
    <<"0", "1", "2", "3", "4", "5", "6", "7", "8", "9", "A", "B", "C", "D", "E", "F">>

\* ord(c) of a character written by its code point: the number its
\* hexadecimal digits up to position i write.
RECURSIVE Ord(_, _)
Ord(c, i) ==
    IF i < 3 THEN 0
    ELSE 16 * Ord(c, i - 1)
         + (CHOOSE d \in 1..16 : HexDigits[d] = SubSeq(c, i, i)) - 1

\* The case-ignorable characters, which str.lower skips on either side of a
\* capital sigma: those up to U+00FF, and the first and the last code point
\* of each range of them above.
IgnorableChars ==
    {"'", ".", ":", "^", "¨", "­", "¯", "´", "·", "¸"}

IgnorableFirst ==
    <<96, 688, 884, 890, 900, 903, 1155, 1369, 1375, 1425, 1471, 1473,
      1476, 1479, 1524, 1536, 1552, 1564, 1600, 1611, 1648, 1750, 1759, 1770,
      1807, 1809, 1840, 1958, 2027, 2042, 2045, 2070, 2137, 2184, 2192, 2200,
      2249, 2362, 2364, 2369, 2381, 2385, 2402, 2417, 2433, 2492, 2497, 2509,
      2530, 2558, 2561, 2620, 2625, 2631, 2635, 2641, 2672, 2677, 2689, 2748,
      2753, 2759, 2765, 2786, 2810, 2817, 2876, 2879, 2881, 2893, 2901, 2914,
      2946, 3008, 3021, 3072, 3076, 3132, 3134, 3142, 3146, 3157, 3170, 3201,
      3260, 3263, 3270, 3276, 3298, 3328, 3387, 3393, 3405, 3426, 3457, 3530,
      3538, 3542, 3633, 3636, 3654, 3761, 3764, 3782, 3784, 3864, 3893, 3895,
      3897, 3953, 3968, 3974, 3981, 3993, 4038, 4141, 4146, 4153, 4157, 4184,
      4190, 4209, 4226, 4229, 4237, 4253, 4348, 4957, 5906, 5938, 5970, 6002,
      6068, 6071, 6086, 6089, 6103, 6109, 6155, 6211, 6277, 6313, 6432, 6439,
      6450, 6457, 6679, 6683, 6742, 6744, 6752, 6754, 6757, 6771, 6783, 6823,
      6832, 6912, 6964, 6966, 6972, 6978, 7019, 7040, 7074, 7080, 7083, 7142,
      7144, 7149, 7151, 7212, 7222, 7288, 7376, 7380, 7394, 7405, 7412, 7416,
      7468, 7544, 7579, 8125, 8127, 8141, 8157, 8173, 8189, 8203, 8216, 8228,
      8231, 8234, 8288, 8294, 8305, 8319, 8336, 8400, 11388, 11503, 11631, 11647,
      11744, 11823, 12293, 12330, 12337, 12347, 12441, 12540, 40981, 42232, 42508, 42607,
      42612, 42623, 42652, 42736, 42752, 42864, 42888, 42994, 43000, 43010, 43014, 43019,
      43045, 43052, 43204, 43232, 43263, 43302, 43335, 43392, 43443, 43446, 43452, 43471,
      43493, 43561, 43569, 43573, 43587, 43596, 43632, 43644, 43696, 43698, 43703, 43710,
      43713, 43741, 43756, 43763, 43766, 43867, 43881, 44005, 44008, 44013, 64286, 64434,
      65024, 65043, 65056, 65106, 65109, 65279, 65287, 65294, 65306, 65342, 65344, 65392,
      65438, 65507, 65529, 66045, 66272, 66422, 67456, 67463, 67506, 68097, 68101, 68108,
      68152, 68159, 68325, 68900, 69291, 69446, 69506, 69633, 69688, 69744, 69747, 69759,
      69811, 69817, 69821, 69826, 69837, 69888, 69927, 69933, 70003, 70016, 70070, 70089,
      70095, 70191, 70196, 70198, 70206, 70367, 70371, 70400, 70459, 70464, 70502, 70512,
      70712, 70722, 70726, 70750, 70835, 70842, 70847, 70850, 71090, 71100, 71103, 71132,
      71219, 71229, 71231, 71339, 71341, 71344, 71351, 71453, 71458, 71463, 71727, 71737,
      71995, 71998, 72003, 72148, 72154, 72160, 72193, 72243, 72251, 72263, 72273, 72281,
      72330, 72344, 72752, 72760, 72767, 72850, 72874, 72882, 72885, 73009, 73018, 73020,
      73023, 73031, 73104, 73109, 73111, 73459, 78896, 92912, 92976, 92992, 94031, 94095,
      94176, 94179, 110576, 110581, 110589, 113821, 113824, 118528, 118576, 119143, 119155, 119173,
      119210, 119362, 121344, 121403, 121461, 121476, 121499, 121505, 122880, 122888, 122907, 122915,
      122918, 123184, 123566, 123628, 125136, 125252, 127995, 917505, 917536, 917760>>

IgnorableLast ==
    <<96, 879, 885, 890, 901, 903, 1161, 1369, 1375, 1469, 1471, 1474,
      1477, 1479, 1524, 1541, 1562, 1564, 1600, 1631, 1648, 1757, 1768, 1773,
      1807, 1809, 1866, 1968, 2037, 2042, 2045, 2093, 2139, 2184, 2193, 2207,
      2306, 2362, 2364, 2376, 2381, 2391, 2403, 2417, 2433, 2492, 2500, 2509,
      2531, 2558, 2562, 2620, 2626, 2632, 2637, 2641, 2673, 2677, 2690, 2748,
      2757, 2760, 2765, 2787, 2815, 2817, 2876, 2879, 2884, 2893, 2902, 2915,
      2946, 3008, 3021, 3072, 3076, 3132, 3136, 3144, 3149, 3158, 3171, 3201,
      3260, 3263, 3270, 3277, 3299, 3329, 3388, 3396, 3405, 3427, 3457, 3530,
      3540, 3542, 3633, 3642, 3662, 3761, 3772, 3782, 3789, 3865, 3893, 3895,
      3897, 3966, 3972, 3975, 3991, 4028, 4038, 4144, 4151, 4154, 4158, 4185,
      4192, 4212, 4226, 4230, 4237, 4253, 4348, 4959, 5908, 5939, 5971, 6003,
      6069, 6077, 6086, 6099, 6103, 6109, 6159, 6211, 6278, 6313, 6434, 6440,
      6450, 6459, 6680, 6683, 6742, 6750, 6752, 6754, 6764, 6780, 6783, 6823,
      6862, 6915, 6964, 6970, 6972, 6978, 7027, 7041, 7077, 7081, 7085, 7142,
      7145, 7149, 7153, 7219, 7223, 7293, 7378, 7392, 7400, 7405, 7412, 7417,
      7530, 7544, 7679, 8125, 8129, 8143, 8159, 8175, 8190, 8207, 8217, 8228,
      8231, 8238, 8292, 8303, 8305, 8319, 8348, 8432, 11389, 11505, 11631, 11647,
      11775, 11823, 12293, 12333, 12341, 12347, 12446, 12542, 40981, 42237, 42508, 42610,
      42621, 42623, 42655, 42737, 42785, 42864, 42890, 42996, 43001, 43010, 43014, 43019,
      43046, 43052, 43205, 43249, 43263, 43309, 43345, 43394, 43443, 43449, 43453, 43471,
      43494, 43566, 43570, 43574, 43587, 43596, 43632, 43644, 43696, 43700, 43704, 43711,
      43713, 43741, 43757, 43764, 43766, 43871, 43883, 44005, 44008, 44013, 64286, 64450,
      65039, 65043, 65071, 65106, 65109, 65279, 65287, 65294, 65306, 65342, 65344, 65392,
      65439, 65507, 65531, 66045, 66272, 66426, 67461, 67504, 67514, 68099, 68102, 68111,
      68154, 68159, 68326, 68903, 69292, 69456, 69509, 69633, 69702, 69744, 69748, 69761,
      69814, 69818, 69821, 69826, 69837, 69890, 69931, 69940, 70003, 70017, 70078, 70092,
      70095, 70193, 70196, 70199, 70206, 70367, 70378, 70401, 70460, 70464, 70508, 70516,
      70719, 70724, 70726, 70750, 70840, 70842, 70848, 70851, 71093, 71101, 71104, 71133,
      71226, 71229, 71232, 71339, 71341, 71349, 71351, 71455, 71461, 71467, 71735, 71738,
      71996, 71998, 72003, 72151, 72155, 72160, 72202, 72248, 72254, 72263, 72278, 72283,
      72342, 72345, 72758, 72765, 72767, 72871, 72880, 72883, 72886, 73014, 73018, 73021,
      73029, 73031, 73105, 73109, 73111, 73460, 78904, 92916, 92982, 92995, 94031, 94111,
      94177, 94180, 110579, 110587, 110590, 113822, 113827, 118573, 118598, 119145, 119170, 119179,
      119213, 119364, 121398, 121452, 121461, 121476, 121503, 121519, 122886, 122904, 122913, 122916,
      122922, 123197, 123566, 123631, 125142, 125259, 127999, 917505, 917631, 917999>>

\* The cased characters that are not case-ignorable, likewise.
CasedChars ==
    {"A", "B", "C", "D", "E", "F", "G", "H", "I", "J", "K", "L", "M", "N",
     "O", "P", "Q", "R", "S", "T", "U", "V", "W", "X", "Y", "Z", "a", "b",
     "c", "d", "e", "f", "g", "h", "i", "j", "k", "l", "m", "n", "o", "p",
     "q", "r", "s", "t", "u", "v", "w", "x", "y", "z", "ª", "µ", "º", "À",
     "Á", "Â", "Ã", "Ä", "Å", "Æ", "Ç", "È", "É", "Ê", "Ë", "Ì", "Í", "Î",
     "Ï", "Ð", "Ñ", "Ò", "Ó", "Ô", "Õ", "Ö", "Ø", "Ù", "Ú", "Û", "Ü", "Ý",
     "Þ", "ß", "à", "á", "â", "ã", "ä", "å", "æ", "ç", "è", "é", "ê", "ë",
     "ì", "í", "î", "ï", "ð", "ñ", "ò", "ó", "ô", "õ", "ö", "ø", "ù", "ú",
     "û", "ü", "ý", "þ", "ÿ"}

CasedFirst ==
    <<256, 444, 452, 661, 880, 886, 891, 895, 902, 904, 908, 910,
      931, 1015, 1162, 1329, 1376, 4256, 4295, 4301, 4304, 4349, 5024, 5112,
      7296, 7312, 7357, 7424, 7531, 7545, 7680, 7960, 7968, 8008, 8016, 8025,
      8027, 8029, 8031, 8064, 8118, 8126, 8130, 8134, 8144, 8150, 8160, 8178,
      8182, 8450, 8455, 8458, 8469, 8473, 8484, 8486, 8488, 8490, 8495, 8505,
      8508, 8517, 8526, 8544, 8579, 9398, 11264, 11390, 11499, 11506, 11520, 11559,
      11565, 42560, 42624, 42786, 42865, 42891, 42896, 42960, 42963, 42965, 42997, 43002,
      43824, 43872, 43888, 64256, 64275, 65313, 65345, 66560, 66736, 66776, 66928, 66940,
      66956, 66964, 66967, 66979, 66995, 67003, 68736, 68800, 71840, 93760, 119808, 119894,
      119966, 119970, 119973, 119977, 119982, 119995, 119997, 120005, 120071, 120077, 120086, 120094,
      120123, 120128, 120134, 120138, 120146, 120488, 120514, 120540, 120572, 120598, 120630, 120656,
      120688, 120714, 120746, 120772, 122624, 122635, 125184, 127280, 127312, 127344>>

CasedLast ==
    <<442, 447, 659, 687, 883, 887, 893, 895, 902, 906, 908, 929,
      1013, 1153, 1327, 1366, 1416, 4293, 4295, 4301, 4346, 4351, 5109, 5117,
      7304, 7354, 7359, 7467, 7543, 7578, 7957, 7965, 8005, 8013, 8023, 8025,
      8027, 8029, 8061, 8116, 8124, 8126, 8132, 8140, 8147, 8155, 8172, 8180,
      8188, 8450, 8455, 8467, 8469, 8477, 8484, 8486, 8488, 8493, 8500, 8505,
      8511, 8521, 8526, 8575, 8580, 9449, 11387, 11492, 11502, 11507, 11557, 11559,
      11565, 42605, 42651, 42863, 42887, 42894, 42954, 42961, 42963, 42969, 42998, 43002,
      43866, 43880, 43967, 64262, 64279, 65338, 65370, 66639, 66771, 66811, 66938, 66954,
      66962, 66965, 66977, 66993, 67001, 67004, 68786, 68850, 71903, 93823, 119892, 119964,
      119967, 119970, 119974, 119980, 119993, 119995, 120003, 120069, 120074, 120084, 120092, 120121,
      120126, 120132, 120134, 120144, 120485, 120512, 120538, 120570, 120596, 120628, 120654, 120686,
      120712, 120744, 120770, 120779, 122633, 122654, 125251, 127305, 127337, 127369>>

\* c is one of chars, or its code point lies in one of the ranges.
InClass(c, chars, first, last) ==
    IF Named(c)
    THEN LET n == Ord(c, Len(c))
         IN  \E r \in 1..Len(first) : first[r] <= n /\ n <= last[r]
    ELSE c \in chars

\* The capital sigma at position i of s is final: the nearest character
\* before it that is not case-ignorable is cased, and the nearest one after
\* it, if there is one, is not.
FinalSigma(s, i) ==
    LET kind == [j \in 1..Len(s) |->
                    IF InClass(s[j], IgnorableChars, IgnorableFirst, IgnorableLast)
                    THEN "ignorable"
                    ELSE IF InClass(s[j], CasedChars, CasedFirst, CasedLast)
                    THEN "cased" ELSE "other"]
        before == {j \in 1..(i - 1) : kind[j] # "ignorable"}
        after == {j \in (i + 1)..Len(s) : kind[j] # "ignorable"}
    IN  /\ before # {}
        /\ kind[Max(before)] = "cased"
        /\ after # {} => kind[Min(after)] # "cased"

\* str.lower from position i on: U+0130 gives two characters, and a capital
\* sigma gives the final or the medial small sigma.
RECURSIVE LowerFrom(_, _)
LowerFrom(s, i) ==
    IF i > Len(s) THEN <<>>
    ELSE (IF s[i] = "U+0130" THEN <<"i", "U+0307">>
          ELSE IF s[i] = "U+03A3" /\ FinalSigma(s, i) THEN <<"U+03C2">>
          ELSE <<LowerChar(s[i])>>)
         \o LowerFrom(s, i + 1)

\* str.lower.
Lower(s) == LowerFrom(s, 1)

\* A character as re.IGNORECASE compares it with the letters of suffix_re:
\* besides the two cases of a letter, U+0130 and U+0131 match I and U+017F
\* matches S.
IgnoreCaseChar(c) ==
    IF c \in {"U+0130", "U+0131"} THEN "i"
    ELSE IF c = "U+017F" THEN "s"
    ELSE IF \E i \in 1..26 : UpperCase[i] = c
    THEN LowerCase[CHOOSE i \in 1..26 : UpperCase[i] = c]
    ELSE c

IgnoreCase(s) == [i \in 1..Len(s) |-> IgnoreCaseChar(s[i])]

\* str.lstrip: drop the leading whitespace.
RECURSIVE LStrip(_)
LStrip(s) == IF s # <<>> /\ IsSpace(Head(s)) THEN LStrip(Tail(s)) ELSE s

\* str.rstrip: drop the trailing whitespace.
RECURSIVE RStrip(_)
RStrip(s) ==
    IF s # <<>> /\ IsSpace(s[Len(s)]) THEN RStrip(SubSeq(s, 1, Len(s) - 1)) ELSE s

\* str.strip.
Strip(s) == RStrip(LStrip(s))

\* str.rstrip(c): drop every trailing occurrence of the character c.
RECURSIVE RStripChar(_, _)
RStripChar(s, c) ==
    IF s # <<>> /\ s[Len(s)] = c THEN RStripChar(SubSeq(s, 1, Len(s) - 1), c) ELSE s

\* str.split(): the maximal runs of non-whitespace characters, in order.
\* cur is the word being collected, acc the words completed so far.
RECURSIVE SplitFrom(_, _, _)
SplitFrom(s, cur, acc) ==
    IF s = <<>>
    THEN IF cur = <<>> THEN acc ELSE Append(acc, cur)
    ELSE IF IsSpace(Head(s))
         THEN SplitFrom(Tail(s), <<>>, IF cur = <<>> THEN acc ELSE Append(acc, cur))
         ELSE SplitFrom(Tail(s), Append(cur, Head(s)), acc)

Split(s) == SplitFrom(s, <<>>, <<>>)

\* sep.join(parts).
RECURSIVE Join(_, _)
Join(sep, parts) ==
    IF parts = <<>> THEN <<>>
    ELSE IF Len(parts) = 1 THEN parts[1]
    ELSE parts[1] \o sep \o Join(sep, Tail(parts))

\* c in s, for a character c.
HasChar(s, c) == \E i \in 1..Len(s) : s[i] = c

\* str.split(c, 1): the text before the first c and the text after it.
SplitFirst(s, c) ==
    IF HasChar(s, c)
    THEN LET i == Min({j \in 1..Len(s) : s[j] = c})
         IN  <<SubSeq(s, 1, i - 1), SubSeq(s, i + 1, Len(s))>>
    ELSE <<s>>

\* needle in hay: needle occurs in hay as a contiguous substring.
Contains(hay, needle) ==
    \E i \in 1..(Len(hay) - Len(needle) + 1) :
        SubSeq(hay, i, i + Len(needle) - 1) = needle

(***************************************************************************)
(* last_first                                                              *)
(***************************************************************************)

\* The alternatives of group 1 of suffix_re, lower-cased (re.IGNORECASE).
SuffixAlternatives ==
    {S("jr"), S("jr."), S("sr"), S("sr."), S("ii"), S("iii"), S("iv"), S("v")}

\* The position of the last character before the $ of a pattern: $ matches
\* at the end of s and before a newline that ends s, and no pattern here
\* matches a newline just before its $.
DollarEnd(s) == IF s # <<>> /\ s[Len(s)] = "\n" THEN Len(s) - 1 ELSE Len(s)

\* suffix_re matches s starting at position p: a comma followed by any
\* whitespace, or at least one whitespace character, then one of the suffix
\* alternatives, compared as re.IGNORECASE does, up to the $.  The value is
\* the set of positions k at which group 1 can begin.
SuffixGroupStarts(s, p) ==
    {k \in (p + 1)..DollarEnd(s) :
        /\ \/ s[p] = "," /\ \A j \in (p + 1)..(k - 1) : IsSpace(s[j])
           \/ \A j \in p..(k - 1) : IsSpace(s[j])
        /\ IgnoreCase(SubSeq(s, k, DollarEnd(s))) \in SuffixAlternatives}

\* suffix_re.search(s): None, or the leftmost match as its start (0-based,
\* as m.start()) and its group 1.
SuffixSearch(s) ==
    LET starts == {p \in 1..Len(s) : SuffixGroupStarts(s, p) # {}}
    IN  IF starts = {} THEN None
        ELSE LET p == Min(starts)
                 k == Min(SuffixGroupStarts(s, p))
             IN  Some([start |-> p - 1, group1 |-> SubSeq(s, k, DollarEnd(s))])

\* The set particles of last_first.
particles ==
    {S("van"), S("von"), S("de"), S("del"), S("di"), S("da"), S("la"), S("le"),
     S("du"), S("dos"), S("st"), S("st."), S("ter"), S("van der"), S("van den"),
     S("de la")}

\* Lines 177-199: the branch for a name without a comma.  tokens[-2] on a
\* list of fewer than two tokens raises IndexError.
LastFirstTokens(tokens) ==
    IF Len(tokens) = 1 THEN Returned(tokens[1])
    ELSE LET n == Len(tokens)
             two_word ==
                 IF n >= 3 /\ Lower(tokens[n - 1] \o S(" ") \o tokens[n]) \in particles
                 THEN Lower(tokens[n - 1] \o S(" ") \o tokens[n])
                 ELSE <<>>
             Surname(last, first) ==
                 IF first # <<>> THEN last \o S(", ") \o first ELSE last
         IN  IF two_word # <<>>
             THEN Returned(Surname(tokens[n - 1] \o S(" ") \o tokens[n],
                                   Join(S(" "), SubSeq(tokens, 1, n - 2))))
             ELSE IF n < 2 THEN Raised("IndexError")
             ELSE IF Lower(tokens[n - 1]) \in particles
             THEN Returned(Surname(tokens[n - 1] \o S(" ") \o tokens[n],
                                   Join(S(" "), SubSeq(tokens, 1, n - 2))))
             ELSE Returned(Surname(tokens[n], Join(S(" "), SubSeq(tokens, 1, n - 1))))

\* The comma branch, were the two parts written in the opposite order.
LastFirstCommaSwapped(stripped) ==
    LET parts == SplitFirst(stripped, ",")
        last == Strip(parts[1])
        rest == Strip(parts[2])
    IN  IF rest # <<>> THEN rest \o S(", ") \o last ELSE last

\* Lines 172-175: the branch for a name that contains a comma.
LastFirstComma(stripped) ==
    LET parts == SplitFirst(stripped, ",")
        last == Strip(parts[1])
        rest == Strip(parts[2])
    IN  IF rest # <<>> THEN last \o S(", ") \o rest ELSE last

\* Lines 172-199: the result for the name without its suffix.
LastFirstBody(stripped) ==
    IF HasChar(stripped, ",")
    THEN Returned(LastFirstComma(stripped))
    ELSE LastFirstTokens(Split(stripped))

\* Lines 201-206: the suffix is put back and the whitespace is normalised.
\* An exception raised on the way propagates.
LastFirstResult(body, suffix) ==
    IF body.exc # "" THEN body
    ELSE Returned(Join(S(" "), Split(IF suffix # <<>>
                                     THEN body.value \o S(" ") \o suffix
                                     ELSE body.value)))

\* Lines 167-206, m being the value of suffix_re.search(name) on the
\* stripped name: a suffix found is cut off the name with the comma and the
\* whitespace before it.
LastFirstMatched(trimmed, m) ==
    IF m # None
    THEN LastFirstResult(
             LastFirstBody(RStripChar(Strip(SubSeq(trimmed, 1, m[1].start)), ",")),
             Strip(m[1].group1))
    ELSE LastFirstResult(LastFirstBody(trimmed), <<>>)

\* last_first, were the comma looked for before the suffix is removed.
LastFirstCommaBeforeSuffix(nm) ==
    IF Strip(nm) = <<>> THEN Returned(Strip(nm))
    ELSE IF HasChar(Strip(nm), ",")
    THEN LastFirstResult(Returned(LastFirstComma(Strip(nm))), <<>>)
    ELSE LastFirstMatched(Strip(nm), SuffixSearch(Strip(nm)))

\* last_first(name): the returned string, or the exception raised.
last_first(nm) ==
    IF Strip(nm) = <<>> THEN Returned(Strip(nm))
    ELSE LastFirstMatched(Strip(nm), SuffixSearch(Strip(nm)))

(***************************************************************************)
(* change_aliases and the normalisation pipeline                           *)
(***************************************************************************)

\* A namemap is a dict in insertion order: a sequence of entries
\* [real_name, aliases] with distinct real_name keys; aliases is a list.

\* Line 266: any(alias.lower() in str(author).lower() for alias in aliases).
AnyAliasIn(aliases, auth) ==
    \E i \in 1..Len(aliases) : Contains(Lower(auth), Lower(aliases[i]))

\* change_aliases, were the last matching entry to win instead of the first.
ChangeAliasesLastWins(auth, map, i) ==
    LET hits == {j \in i..Len(map) : AnyAliasIn(map[j].aliases, auth)}
    IN  IF hits = {} THEN auth ELSE map[Max(hits)].real_name

\* change_aliases, were a miss to return the empty string instead of the name.
ChangeAliasesMissEmpty(auth, map, i) ==
    LET hits == {j \in i..Len(map) : AnyAliasIn(map[j].aliases, auth)}
    IN  IF hits = {} THEN <<>> ELSE map[Min(hits)].real_name

\* Lines 265-269: the loop over namemap.items() from entry i on.
RECURSIVE ChangeAliasesFrom(_, _, _)
ChangeAliasesFrom(auth, map, i) ==
    IF i > Len(map) THEN auth
    ELSE IF AnyAliasIn(map[i].aliases, auth) THEN map[i].real_name
    ELSE ChangeAliasesFrom(auth, map, i + 1)

\* change_aliases(author, namemap).
change_aliases(auth, map) == ChangeAliasesFrom(auth, map, 1)

\* combine_spellings(name), with the global spell_map passed explicitly.
combine_spellings(nm, spellings) == change_aliases(nm, spellings)

\* process_pennames(name), with the global pen_map passed explicitly.
process_pennames(nm, pens) == change_aliases(nm, pens)

\* normalize_author(name): an exception of last_first propagates.
normalize_author(nm, spellings, pens) ==
    LET formatted == last_first(nm)
    IN  IF formatted.exc # "" THEN formatted
        ELSE Returned(process_pennames(combine_spellings(formatted.value, spellings),
                                       pens))

\* spell_lastfirst(name): an exception of last_first propagates.
spell_lastfirst(nm, spellings) ==
    LET formatted == last_first(nm)
    IN  IF formatted.exc # "" THEN formatted
        ELSE Returned(combine_spellings(formatted.value, spellings))

(***************************************************************************)
(* soup_to_dataframe: the classifier and the parser of one line            *)
(***************************************************************************)

months ==
    {S("January"), S("February"), S("March"), S("April"), S("May"), S("June"),
     S("July"), S("August"), S("September"), S("October"), S("November"),
     S("December")}

\* re.match(r"\d\d\d\d", word) != None: the word begins with four digits.
MatchYear(word) ==
    Len(word) >= 4 /\ \A i \in 1..4 : IsDigit(word[i])

\* The header test, were the month compared without regard to case.
IsIssueLineAnyCase(line) ==
    LET words == Split(line)
    IN  IF Len(words) = 2
        THEN (Lower(words[1]) \in {Lower(mo) : mo \in months}) /\ MatchYear(words[2])
        ELSE FALSE

\* Lines 104-109: is_issue_line for a stripped, non-empty line.
IsIssueLine(line) ==
    LET words == Split(line)
    IN  IF Len(words) = 2
        THEN (words[1] \in months) /\ MatchYear(words[2])
        ELSE FALSE

\* The character class [^()].
NotParen(c) == c \notin {"(", ")"}

\* The story pattern, were group 2 written (.*) instead of ([^()]*).
MatchTitleAuthorAnyGroup(line) ==
    LET n == Len(line)
        ends == {k \in 0..(n - 2) : line[k + 1] = "(" /\ line[n] = ")"}
    IN  IF ends = {} THEN None
        ELSE LET k == Max(ends)
             IN  Some([group1 |-> SubSeq(line, 1, k),
                       group2 |-> SubSeq(line, k + 2, n - 1)])

\* re.match(r"^(.*)\(([^()]*)\)$", line): None, or groups 1 and 2.  The
\* greedy (.*) takes the longest prefix without a newline after which the
\* rest of the line, up to the $, is "(", characters other than parentheses,
\* ")".
MatchTitleAuthor(line) ==
    LET n == DollarEnd(line)
        ends == {k \in 0..(n - 2) :
                    /\ line[k + 1] = "("
                    /\ line[n] = ")"
                    /\ \A j \in (k + 2)..(n - 1) : NotParen(line[j])
                    /\ \A j \in 1..k : line[j] # "\n"}
    IN  IF ends = {} THEN None
        ELSE LET k == Max(ends)
             IN  Some([group1 |-> SubSeq(line, 1, k),
                       group2 |-> SubSeq(line, k + 2, n - 1)])

\* Month and year, were a missing issue formatted instead of left empty.
IssuePartsNoneText(issue) ==
    IF issue # None /\ issue[1] # <<>>
    THEN LET parts == Split(issue[1])
         IN  IF Len(parts) = 2
             THEN [month |-> parts[1], year |-> parts[2]]
             ELSE [month |-> issue[1], year |-> <<>>]
    ELSE [month |-> S("None"), year |-> <<>>]

\* Month and year of the record, were the issue split at single spaces, so
\* that a header with a longer run of whitespace has more than two parts.
IssuePartsSingleSpace(issue) ==
    IF issue # None /\ issue[1] # <<>>
    THEN LET parts == Split(issue[1])
         IN  IF Len(parts) = 2 /\ Len(issue[1]) = Len(parts[1]) + 1 + Len(parts[2])
             THEN [month |-> parts[1], year |-> parts[2]]
             ELSE [month |-> issue[1], year |-> <<>>]
    ELSE [month |-> <<>>, year |-> <<>>]

\* Lines 128-136: month and year of the record, from current_issue.
IssueParts(issue) ==
    IF issue # None /\ issue[1] # <<>>
    THEN LET parts == Split(issue[1])
         IN  IF Len(parts) = 2
             THEN [month |-> parts[1], year |-> parts[2]]
             ELSE [month |-> issue[1], year |-> <<>>]
    ELSE [month |-> <<>>, year |-> <<>>]

\* Lines 139-144: the dictionary appended to records.
Record(issue, m) ==
    [Year |-> IssueParts(issue).year,
     Month |-> IssueParts(issue).month,
     Title |-> Strip(m.group1),
     Published_As |-> Strip(m.group2)]

(***************************************************************************)
(* Inputs                                                                  *)
(***************************************************************************)

MaxLines == 3
MaxLineAtoms == 4
MaxNameTokens == 4
MaxEntries == 2
MaxAliases == 2

\* All sequences over set of length at most n.
SeqsUpTo(set, n) == UNION {[1..k -> set] : k \in 0..n}

\* The concatenation of a sequence of strings.
RECURSIVE Concat(_)
Concat(parts) == IF parts = <<>> THEN <<>> ELSE Head(parts) \o Concat(Tail(parts))

\* The year 1940 in the digits U+0660-U+0669.
ArabicIndic1940 == <<"U+0661", "U+0669", "U+0664", "U+0660">>

\* Raw lines of a listing: a blank line, issue headers (one of them ending in
\* a parenthesised group), a line that is neither header nor story, and story
\* lines, the last with a byline on which last_first raises.
LinePool ==
    {S(" \t"),
     S("July 1939"), S("August  ") \o ArabicIndic1940 \o S(" "), S("May 1950(x)"),
     S("No Parens Here"),
     S(" Life-Line  ( Anson McDonald ) "),
     S("If (a) (Al Smith, Jr.)"), S("Who (, Jr.)")}

\* The end-to-end scenario of the listing of July and August 1939.
ScenarioLines ==
    <<S("July 1939"), S("Black Destroyer (A. E. van Vogt)"),
      S("Trends (Isaac Asimov)"), S("August 1939"),
      S("Life-Line (Robert Heinlein)")>>

\* The listings of at most n lines of the pool, and the scenario.
ListingInputs(n) == SeqsUpTo(LinePool, n) \cup {ScenarioLines}

\* The tables of the run: none, spelling variants alone, and spelling
\* variants together with pen names.
SpellingTable ==
    <<[real_name |-> S("Asimov, Isaac"), aliases |-> <<S("Azimov")>>],
      [real_name |-> S("MacDonald, Anson"), aliases |-> <<S("mcdonald")>>]>>

PenNameTable ==
    <<[real_name |-> S("Heinlein, Robert A."),
       aliases |-> <<S("MacDonald, Anson"), S("Heinlein")>>]>>

TableInputs ==
    {[spell_map |-> <<>>, pen_map |-> <<>>],
     [spell_map |-> SpellingTable, pen_map |-> <<>>],
     [spell_map |-> SpellingTable, pen_map |-> PenNameTable]}

\* Single lines built from pieces that make headers, near-headers, story
\* lines with one, several or nested groups, and unparsable lines.
LineAtoms ==
    {S("July"), S("july"), S(" "), S(" 1939"), S(" 193"), S("("), S(")"), S("x")}

\* The lines of at most n pieces.
LineInputs(n) == {Concat(parts) : parts \in SeqsUpTo(LineAtoms, n)}

\* Names built from tokens (given names, particles, suffixes, nothing) and
\* the separators between them.
NameTokens == {S(""), S("Al"), S("de"), S("La"), S("JR.")}
NameSeparators == {S(" "), S(", ")}

RECURSIVE Interleave(_, _)
Interleave(tokens, seps) ==
    IF Len(tokens) = 1 THEN tokens[1]
    ELSE tokens[1] \o seps[1] \o Interleave(Tail(tokens), Tail(seps))

\* Names with whitespace other than the space, and with letters beyond ASCII
\* and beyond U+00FF.
OtherNames ==
    {S("Al Smith"), S("Smith,Al"), S("Al SmithJr"), S("Al Smith, Jr."),
     S("Smith, Al, JR"), S("René DE La\tCruz"), S("\n"),
     S("Al") \o <<"U+2003">> \o S("Smith"), S("Al Smith ") \o <<"U+0130">> \o S("V"),
     S("DE") \o <<"U+03A3">> \o S(" Cruz")}

\* The names of at most n tokens, and the names above.
NameInputs(n) ==
    OtherNames \cup
    UNION {{Interleave(tokens, seps) :
                tokens \in [1..k -> NameTokens], seps \in [1..(k - 1) -> NameSeparators]} :
           k \in 1..n}

\* Arguments of change_aliases: names, and maps whose entries carry the
\* aliases of AliasPool in every selection of at most MaxAliases of them.
AuthorInputs ==
    {S(""), S("Smith, Al"), S("SMITH"), S("al"), S("Jonés, Al"), S("Smithson")}

AliasPool == <<S("smith"), S("AL"), S("JONÉS"), S("")>>

RECURSIVE Select(_, _)
Select(pool, chosen) ==
    IF pool = <<>> THEN <<>>
    ELSE (IF Len(pool) \in chosen THEN <<pool[Len(pool)]>> ELSE <<>>)
         \o Select(SubSeq(pool, 1, Len(pool) - 1), chosen)

\* The alias lists of at most a aliases.
AliasLists(a) ==
    {Select(AliasPool, chosen) :
        chosen \in {c \in SUBSET (1..Len(AliasPool)) : Cardinality(c) <= a}}

RealNames == <<S("Smith, Alan"), S("Jones, Bo"), S("Doe, Cy")>>

\* The maps of at most n entries, each with at most a aliases.
MapInputs(n, a) ==
    UNION {{[i \in 1..k |-> [real_name |-> RealNames[i], aliases |-> lists[i]]] :
                lists \in [1..k -> AliasLists(a)]} :
           k \in 0..n}

(***************************************************************************)
(* The script                                                              *)
(***************************************************************************)

ScanStart ==
    /\ line_num = 0
    /\ is_issue_line = FALSE
    /\ current_issue = None
    /\ num_stories = 0
    /\ records = <<>>
    /\ diagnostics = <<>>

NoCall == name = <<>> /\ author = <<>> /\ namemap = <<>> /\ ret = None

\* The state when soup_to_dataframe enters its loop, lines 83-91 done.
Init ==
    /\ lines \in ListingInputs(MaxLines)
    /\ ScanStart
    /\ \E tables \in TableInputs :
           /\ pen_map = tables.pen_map
           /\ spell_map = tables.spell_map
    /\ stories = <<>>
    /\ pc = "scan"
    /\ error = ""
    /\ NoCall

\* The same, for a listing of one line.
InitLine ==
    /\ lines \in {<<l>> : l \in LineInputs(MaxLineAtoms)}
    /\ ScanStart
    /\ pen_map = <<>>
    /\ spell_map = <<>>
    /\ stories = <<>>
    /\ pc = "scan"
    /\ error = ""
    /\ NoCall

\* The line of the next iteration, after line = line.strip().
NextLine == Strip(lines[line_num + 1])

InLoop == pc = "scan" /\ line_num < Len(lines)

\* Lines 95-99: an empty line ends the iteration at once.
BlankLine ==
    /\ InLoop
    /\ NextLine = <<>>
    /\ line_num' = line_num + 1
    /\ UNCHANGED <<lines, is_issue_line, current_issue, num_stories, records,
                   diagnostics>>
    /\ UNCHANGED <<main_vars, call_vars>>

\* The header step, were a header to set the issue only while none is set.
IssueLineKeepsFirst ==
    /\ InLoop
    /\ NextLine # <<>>
    /\ IsIssueLine(NextLine)
    /\ line_num' = line_num + 1
    /\ is_issue_line' = TRUE
    /\ current_issue' = IF current_issue = None THEN Some(NextLine) ELSE current_issue
    /\ num_stories' = 0
    /\ UNCHANGED <<lines, records, diagnostics>>
    /\ UNCHANGED <<main_vars, call_vars>>

\* The header step, were a header that ends in a parenthesised group to go
\* on to the parser as well.
IssueLineAlsoParsed ==
    /\ InLoop
    /\ NextLine # <<>>
    /\ IsIssueLine(NextLine)
    /\ line_num' = line_num + 1
    /\ is_issue_line' = TRUE
    /\ current_issue' = Some(NextLine)
    /\ num_stories' = 0
    /\ records' = IF MatchTitleAuthor(NextLine) # None
                  THEN Append(records, Record(Some(NextLine), MatchTitleAuthor(NextLine)[1]))
                  ELSE records
    /\ UNCHANGED <<lines, diagnostics>>
    /\ UNCHANGED <<main_vars, call_vars>>

\* Lines 104-113: a header line sets the current issue.
IssueLine ==
    /\ InLoop
    /\ NextLine # <<>>
    /\ IsIssueLine(NextLine)
    /\ line_num' = line_num + 1
    /\ is_issue_line' = TRUE
    /\ current_issue' = Some(NextLine)
    /\ num_stories' = 0
    /\ UNCHANGED <<lines, records, diagnostics>>
    /\ UNCHANGED <<main_vars, call_vars>>

\* The story step, were the record inserted at the front of the list.
StoryLinePrepends ==
    /\ InLoop
    /\ NextLine # <<>>
    /\ ~IsIssueLine(NextLine)
    /\ MatchTitleAuthor(NextLine) # None
    /\ line_num' = line_num + 1
    /\ is_issue_line' = FALSE
    /\ num_stories' = num_stories + 1
    /\ records' = <<Record(current_issue, MatchTitleAuthor(NextLine)[1])>> \o records
    /\ UNCHANGED <<lines, current_issue, diagnostics>>
    /\ UNCHANGED <<main_vars, call_vars>>

\* Lines 116-123, 128-144: a line that matches Title (Author) adds a record.
StoryLine ==
    /\ InLoop
    /\ NextLine # <<>>
    /\ ~IsIssueLine(NextLine)
    /\ MatchTitleAuthor(NextLine) # None
    /\ line_num' = line_num + 1
    /\ is_issue_line' = FALSE
    /\ num_stories' = num_stories + 1
    /\ records' = Append(records, Record(current_issue, MatchTitleAuthor(NextLine)[1]))
    /\ UNCHANGED <<lines, current_issue, diagnostics>>
    /\ UNCHANGED <<main_vars, call_vars>>

\* The skip step, were line 126 a break instead of a continue.
UnmatchedLineBreaks ==
    /\ InLoop
    /\ NextLine # <<>>
    /\ ~IsIssueLine(NextLine)
    /\ MatchTitleAuthor(NextLine) = None
    /\ line_num' = Len(lines)
    /\ is_issue_line' = FALSE
    /\ diagnostics' = Append(diagnostics, [line_num |-> line_num + 1, line |-> NextLine])
    /\ UNCHANGED <<lines, current_issue, num_stories, records>>
    /\ UNCHANGED <<main_vars, call_vars>>

\* The skip step, were the reported line number counted from zero.
UnmatchedLineZeroBased ==
    /\ InLoop
    /\ NextLine # <<>>
    /\ ~IsIssueLine(NextLine)
    /\ MatchTitleAuthor(NextLine) = None
    /\ line_num' = line_num + 1
    /\ is_issue_line' = FALSE
    /\ diagnostics' = Append(diagnostics, [line_num |-> line_num, line |-> NextLine])
    /\ UNCHANGED <<lines, current_issue, num_stories, records>>
    /\ UNCHANGED <<main_vars, call_vars>>

\* Lines 116-126: any other line is reported and skipped.
UnmatchedLine ==
    /\ InLoop
    /\ NextLine # <<>>
    /\ ~IsIssueLine(NextLine)
    /\ MatchTitleAuthor(NextLine) = None
    /\ line_num' = line_num + 1
    /\ is_issue_line' = FALSE
    /\ diagnostics' = Append(diagnostics, [line_num |-> line_num + 1, line |-> NextLine])
    /\ UNCHANGED <<lines, current_issue, num_stories, records>>
    /\ UNCHANGED <<main_vars, call_vars>>

\* Lines 146-148 and 334: the loop is over, stories is the dataframe.
ScanEnd ==
    /\ pc = "scan"
    /\ line_num = Len(lines)
    /\ stories' = records
    /\ pc' = "author"
    /\ UNCHANGED <<pen_map, spell_map, error>>
    /\ UNCHANGED <<scan_vars, call_vars>>

\* The first exception among the outcomes of a column apply, "" if none.
FirstError(outs) ==
    IF \E i \in 1..Len(outs) : outs[i].exc # ""
    THEN outs[Min({i \in 1..Len(outs) : outs[i].exc # ""})].exc
    ELSE ""

\* Line 338, were the normalised name stored into Published_As as well.
AssignAuthorWritesBack ==
    /\ pc = "author"
    /\ LET outs == [i \in 1..Len(stories) |->
                       normalize_author(stories[i].Published_As, spell_map, pen_map)]
           failed == IF stories = <<>> THEN "KeyError" ELSE FirstError(outs)
       IN  IF failed # ""
           THEN /\ pc' = "crashed"
                /\ error' = failed
                /\ UNCHANGED stories
           ELSE /\ pc' = "published"
                /\ stories' = [i \in 1..Len(stories) |->
                                  [Year |-> stories[i].Year,
                                   Month |-> stories[i].Month,
                                   Title |-> stories[i].Title,
                                   Published_As |-> outs[i].value,
                                   Author |-> outs[i].value]]
                /\ UNCHANGED error
    /\ UNCHANGED <<pen_map, spell_map>>
    /\ UNCHANGED <<scan_vars, call_vars>>

\* Line 338: the Author column.  A dataframe made from no records has no
\* Published_As column and the lookup raises KeyError.
AssignAuthor ==
    /\ pc = "author"
    /\ LET outs == [i \in 1..Len(stories) |->
                       normalize_author(stories[i].Published_As, spell_map, pen_map)]
           failed == IF stories = <<>> THEN "KeyError" ELSE FirstError(outs)
       IN  IF failed # ""
           THEN /\ pc' = "crashed"
                /\ error' = failed
                /\ UNCHANGED stories
           ELSE /\ pc' = "published"
                /\ stories' = [i \in 1..Len(stories) |->
                                  [Year |-> stories[i].Year,
                                   Month |-> stories[i].Month,
                                   Title |-> stories[i].Title,
                                   Published_As |-> stories[i].Published_As,
                                   Author |-> outs[i].value]]
                /\ UNCHANGED error
    /\ UNCHANGED <<pen_map, spell_map>>
    /\ UNCHANGED <<scan_vars, call_vars>>

\* Line 339, were the column overwritten with the fully normalised name.
AssignPublishedAsResolved ==
    /\ pc = "published"
    /\ LET outs == [i \in 1..Len(stories) |->
                       normalize_author(stories[i].Published_As, spell_map, pen_map)]
           failed == FirstError(outs)
       IN  IF failed # ""
           THEN /\ pc' = "crashed"
                /\ error' = failed
                /\ UNCHANGED stories
           ELSE /\ pc' = "write"
                /\ stories' = [i \in 1..Len(stories) |->
                                  [stories[i] EXCEPT !.Published_As = outs[i].value]]
                /\ UNCHANGED error
    /\ UNCHANGED <<pen_map, spell_map>>
    /\ UNCHANGED <<scan_vars, call_vars>>

\* Line 339: the Published_As column is overwritten.
AssignPublishedAs ==
    /\ pc = "published"
    /\ LET outs == [i \in 1..Len(stories) |->
                       spell_lastfirst(stories[i].Published_As, spell_map)]
           failed == FirstError(outs)
       IN  IF failed # ""
           THEN /\ pc' = "crashed"
                /\ error' = failed
                /\ UNCHANGED stories
           ELSE /\ pc' = "write"
                /\ stories' = [i \in 1..Len(stories) |->
                                  [stories[i] EXCEPT !.Published_As = outs[i].value]]
                /\ UNCHANGED error
    /\ UNCHANGED <<pen_map, spell_map>>
    /\ UNCHANGED <<scan_vars, call_vars>>

\* Line 342: the dataframe is written out as it stands.
WriteCsv ==
    /\ pc = "write"
    /\ pc' = "done"
    /\ UNCHANGED <<pen_map, spell_map, stories, error>>
    /\ UNCHANGED <<scan_vars, call_vars>>

Next ==
    \/ BlankLine
    \/ IssueLine
    \/ StoryLine
    \/ UnmatchedLine
    \/ ScanEnd
    \/ AssignAuthor
    \/ AssignPublishedAs
    \/ WriteCsv

Spec == Init /\ [][Next]_vars

SpecLine == InitLine /\ [][Next]_vars

\* Lines 93-144 as a function of the list of lines: the records the loop
\* has built from line i on, given the issue and the records so far.
RECURSIVE ScanRecordsFrom(_, _, _, _)
ScanRecordsFrom(ls, i, issue, recs) ==
    IF i > Len(ls) THEN recs
    ELSE LET line == Strip(ls[i])
         IN  IF line = <<>> THEN ScanRecordsFrom(ls, i + 1, issue, recs)
             ELSE IF IsIssueLine(line) THEN ScanRecordsFrom(ls, i + 1, Some(line), recs)
             ELSE IF MatchTitleAuthor(line) # None
             THEN ScanRecordsFrom(ls, i + 1, issue,
                                  Append(recs, Record(issue, MatchTitleAuthor(line)[1])))
             ELSE ScanRecordsFrom(ls, i + 1, issue, recs)

\* soup_to_dataframe, from the list of lines to the list of records.
soup_to_dataframe(ls) == ScanRecordsFrom(ls, 1, None, <<>>)

\* Lines 334-339 as a function of the listing and the two tables: the final
\* dataframe, or the exception that ends the script.
final_stories(ls, spellings, pens) ==
    LET scanned == soup_to_dataframe(ls)
        authors == [i \in 1..Len(scanned) |->
                       normalize_author(scanned[i].Published_As, spellings, pens)]
        bylines == [i \in 1..Len(scanned) |->
                       spell_lastfirst(scanned[i].Published_As, spellings)]
    IN  IF scanned = <<>> THEN Raised("KeyError")
        ELSE IF FirstError(authors) # "" THEN Raised(FirstError(authors))
        ELSE IF FirstError(bylines) # "" THEN Raised(FirstError(bylines))
        ELSE Returned([i \in 1..Len(scanned) |->
                          [Year |-> scanned[i].Year,
                           Month |-> scanned[i].Month,
                           Title |-> scanned[i].Title,
                           Published_As |-> bylines[i].value,
                           Author |-> authors[i].value]])

(***************************************************************************)
(* Direct calls of the pure functions                                      *)
(***************************************************************************)

NoScript ==
    /\ lines = <<>>
    /\ ScanStart
    /\ pen_map = <<>>
    /\ spell_map = <<>>
    /\ stories = <<>>
    /\ error = ""

InitLastFirst ==
    /\ NoScript
    /\ pc = "last_first"
    /\ name \in NameInputs(MaxNameTokens)
    /\ author = <<>>
    /\ namemap = <<>>
    /\ ret = None

\* last_first(name) runs to its return or to the exception it raises.
CallLastFirst ==
    /\ pc = "last_first"
    /\ ret = None
    /\ ret' = Some(last_first(name))
    /\ UNCHANGED <<name, author, namemap>>
    /\ UNCHANGED <<scan_vars, main_vars>>

SpecLastFirst == InitLastFirst /\ [][CallLastFirst]_vars

InitAliases ==
    /\ NoScript
    /\ pc = "change_aliases"
    /\ name = <<>>
    /\ author \in AuthorInputs
    /\ namemap \in MapInputs(MaxEntries, MaxAliases)
    /\ ret = None

\* change_aliases(author, namemap) runs to its return.
CallChangeAliases ==
    /\ pc = "change_aliases"
    /\ ret = None
    /\ ret' = Some(Returned(change_aliases(author, namemap)))
    /\ UNCHANGED <<name, author, namemap>>
    /\ UNCHANGED <<scan_vars, main_vars>>

SpecAliases == InitAliases /\ [][CallChangeAliases]_vars

\* Arguments of normalize_author: pen-name tables whose entries carry the
\* aliases of PenAliasPool, written as a byline prints them or as last_first
\* formats them, and the bylines.
PenAliasPool ==
    <<S("Anson MacDonald"), S("MacDonald, Anson"), S("Heinlein"), S("monroe")>>

PenAliasLists(a) ==
    {Select(PenAliasPool, chosen) :
        chosen \in {c \in SUBSET (1..Len(PenAliasPool)) : Cardinality(c) <= a}}

PenRealNames == <<S("Heinlein, Robert A."), S("Smith, George O."), S("Doe, Cy")>>

\* The pen-name tables of at most n entries, each with at most a aliases.
PenMapInputs(n, a) ==
    UNION {{[i \in 1..k |-> [real_name |-> PenRealNames[i], aliases |-> lists[i]]] :
                lists \in [1..k -> PenAliasLists(a)]} :
           k \in 0..n}

BylineInputs ==
    {S("Anson MacDonald"), S("MacDonald, Anson"), S("Heinlein"),
     S("Robert Heinlein"), S("Lyle Monroe"), S("Isaac Azimov")}

InitNormalize ==
    /\ lines = <<>>
    /\ ScanStart
    /\ pen_map \in PenMapInputs(MaxEntries, MaxAliases)
    /\ spell_map \in {<<>>, SpellingTable}
    /\ stories = <<>>
    /\ error = ""
    /\ pc = "normalize_author"
    /\ name \in BylineInputs
    /\ author = <<>>
    /\ namemap = <<>>
    /\ ret = None

\* normalize_author(name) runs to its return or to the exception it raises.
CallNormalizeAuthor ==
    /\ pc = "normalize_author"
    /\ ret = None
    /\ ret' = Some(normalize_author(name, spell_map, pen_map))
    /\ UNCHANGED <<name, author, namemap>>
    /\ UNCHANGED <<scan_vars, main_vars>>

SpecNormalize == InitNormalize /\ [][CallNormalizeAuthor]_vars

(***************************************************************************)
(* Properties: what a line is, stated on its text                          *)
(***************************************************************************)

\* The trimmed line consists of a month name, one run of whitespace and a
\* word that begins with four digits.
HeaderText(t) ==
    LET spaces == {k \in 1..Len(t) : IsSpace(t[k])}
    IN  /\ spaces # {}
        /\ \A k \in Min(spaces)..Max(spaces) : k \in spaces
        /\ SubSeq(t, 1, Min(spaces) - 1) \in months
        /\ Max(spaces) + 4 <= Len(t)
        /\ \A k \in (Max(spaces) + 1)..(Max(spaces) + 4) : IsDigit(t[k])

\* The text before the first whitespace character, and after the last one.
FirstWord(t) == SubSeq(t, 1, Min({k \in 1..Len(t) : IsSpace(t[k])}) - 1)
LastWord(t) == SubSeq(t, Max({k \in 1..Len(t) : IsSpace(t[k])}) + 1, Len(t))

\* The position of the last opening parenthesis, 0 if there is none.
GroupOpen(t) == Max({0} \cup {k \in 1..Len(t) : t[k] = "("})

\* The trimmed line ends with a parenthesised group without parentheses in it.
EndsWithGroup(t) ==
    /\ t # <<>>
    /\ t[Len(t)] = ")"
    /\ GroupOpen(t) > 0
    /\ \A k \in (GroupOpen(t) + 1)..(Len(t) - 1) : t[k] # ")"

GroupTitle(t) == Strip(SubSeq(t, 1, GroupOpen(t) - 1))
GroupAuthor(t) == Strip(SubSeq(t, GroupOpen(t) + 1, Len(t) - 1))

\* What a trimmed line is.
Kind(t) ==
    IF t = <<>> THEN "blank"
    ELSE IF HeaderText(t) THEN "header"
    ELSE IF EndsWithGroup(t) THEN "story"
    ELSE "unparsable"

\* The kinds of the lines consumed so far, and the lines of one kind.
Consumed == [i \in 1..line_num |-> Kind(Strip(lines[i]))]
Of(kinds, kind) == {i \in DOMAIN kinds : kinds[i] = kind}

\* The j-th smallest element of a set of line numbers.
Nth(set, j) == CHOOSE i \in set : Cardinality({k \in set : k <= i}) = j

\* The list ls without its i-th element.
Remove(ls, i) == SubSeq(ls, 1, i - 1) \o SubSeq(ls, i + 1, Len(ls))

\* alias occurs in nm when the case of letters is disregarded.
OccursIgnoringCase(alias, nm) ==
    LET small == Lower(alias)
        text == Lower(nm)
    IN  \E i \in 0..(Len(text) - Len(small)) :
            \A j \in 1..Len(small) : text[i + j] = small[j]

\* The entries of namemap one of whose aliases occurs in author.
MatchingEntries ==
    {i \in 1..Len(namemap) :
        \E j \in 1..Len(namemap[i].aliases) :
            OccursIgnoringCase(namemap[i].aliases[j], author)}

(***************************************************************************)
(* Properties                                                              *)
(***************************************************************************)

\* C1: last_first is total: every call returns a string and raises no
\* exception, whatever the name (empty, only a suffix, a comma followed by
\* a suffix, ...).
C1_LastFirstNeverRaises ==
    (pc = "last_first" /\ ret # None) => ret[1].exc = ""

\* C2: every record carries the month and the year of the most recent
\* header line that precedes its story line, whatever lines lie in between.
C2_RecordCarriesLatestHeader ==
    LET kinds == Consumed
        story == Of(kinds, "story")
        header == Of(kinds, "header")
    IN  \A j \in 1..Len(records) :
            j <= Cardinality(story) =>
                LET before == {h \in header : h < Nth(story, j)}
                IN  before # {} =>
                        /\ records[j].Month = FirstWord(Strip(lines[Max(before)]))
                        /\ records[j].Year = LastWord(Strip(lines[Max(before)]))

\* A record was emitted after two headers of different months.
C2_Witness ==
    /\ line_num = 3
    /\ Of(Consumed, "header") = {1, 2}
    /\ FirstWord(Strip(lines[1])) # FirstWord(Strip(lines[2]))
    /\ Of(Consumed, "story") = {3}
    /\ Len(records) = 1

\* C3: a story line before any header still gives a record, with empty
\* Year and Month, and gives no diagnostic.
C3_StoryBeforeAnyHeader ==
    LET kinds == Consumed
        story == Of(kinds, "story")
        header == Of(kinds, "header")
    IN  \A i \in story :
            (\A h \in header : h > i) =>
                LET j == Cardinality({k \in story : k <= i})
                IN  /\ j <= Len(records)
                    /\ records[j].Year = <<>>
                    /\ records[j].Month = <<>>
                    /\ records[j].Title = GroupTitle(Strip(lines[i]))
                    /\ \A d \in 1..Len(diagnostics) : diagnostics[d].line_num # i

\* A story line was consumed while no header had been seen.
C3_Witness ==
    /\ line_num >= 1
    /\ 1 \in Of(Consumed, "story")
    /\ Of(Consumed, "header") = {}
    /\ Len(records) >= 1
    /\ diagnostics = <<>>

\* C4: an unparsable line adds no record and does not stop the scan: the
\* records are those of the same listing without that line.
C4_UnparsableLineAsIfAbsent ==
    (pc # "scan") =>
        \A i \in Of(Consumed, "unparsable") :
            records = soup_to_dataframe(Remove(lines, i))

\* The scan is over, with a story before and a story after an unparsable line.
C4_Witness ==
    /\ pc # "scan"
    /\ Len(lines) = 3
    /\ Of(Consumed, "unparsable") = {2}
    /\ Of(Consumed, "story") = {1, 3}
    /\ Len(records) = 2

\* C5: exactly one record for each story line, none for any other line, in
\* the order of the lines; the listing of July and August 1939 gives three
\* records, the third being Life-Line of August 1939.
C5_OneRecordPerStoryLineInOrder ==
    LET story == Of(Consumed, "story")
    IN  /\ Len(records) = Cardinality(story)
        /\ \A j \in 1..Len(records) :
               /\ records[j].Title = GroupTitle(Strip(lines[Nth(story, j)]))
               /\ records[j].Published_As = GroupAuthor(Strip(lines[Nth(story, j)]))
        /\ (lines = ScenarioLines /\ pc # "scan") =>
               /\ Len(records) = 3
               /\ records[3].Month = S("August")
               /\ records[3].Year = S("1939")
               /\ records[3].Title = S("Life-Line")

\* The scan of the listing of July and August 1939 is over.
C5_Witness ==
    /\ lines = ScenarioLines
    /\ pc # "scan"
    /\ Len(records) = 3

\* C6: when aliases of two or more entries occur in the name, the result
\* is the canonical name of the earliest of these entries.
C6_FirstMatchWins ==
    (pc = "change_aliases" /\ ret # None /\ Cardinality(MatchingEntries) >= 2) =>
        /\ ret[1].exc = ""
        /\ ret[1].value = namemap[Min(MatchingEntries)].real_name

\* Two entries match, the first of them through its second alias only.
C6_Witness ==
    /\ pc = "change_aliases"
    /\ ret # None
    /\ Cardinality(MatchingEntries) >= 2
    /\ Len(namemap[Min(MatchingEntries)].aliases) = 2
    /\ ~OccursIgnoringCase(namemap[Min(MatchingEntries)].aliases[1], author)

\* C7: when no alias of any entry occurs in the name, the result is the
\* name unchanged and nothing is raised.
C7_MissReturnsName ==
    (pc = "change_aliases" /\ ret # None /\ MatchingEntries = {}) =>
        /\ ret[1].exc = ""
        /\ ret[1].value = author

\* A miss on a table with an entry without aliases and one with aliases.
C7_Witness ==
    /\ pc = "change_aliases"
    /\ ret # None
    /\ MatchingEntries = {}
    /\ author # <<>>
    /\ \E i \in 1..Len(namemap) : namemap[i].aliases = <<>>
    /\ \E i \in 1..Len(namemap) : namemap[i].aliases # <<>>

\* C8: a non-blank trimmed line is treated as an issue header exactly when
\* it is a month name, whitespace and a word that begins with four digits;
\* a line treated as a header becomes the current issue.
C8_HeaderExactlyMonthAndYear ==
    (Len(lines) = 1 /\ line_num = 1 /\ Strip(lines[1]) # <<>>) =>
        /\ is_issue_line <=> Kind(Strip(lines[1])) = "header"
        /\ is_issue_line <=> current_issue = Some(Strip(lines[1]))
        /\ Len(Split(Strip(lines[1]))) # 2 => ~is_issue_line
        /\ Strip(lines[1]) \in {S("july 1939"), S("July 193"), S("July 193x")}
               => ~is_issue_line

\* A header whose year word goes on after its four digits has been consumed.
C8_Witness ==
    /\ Len(lines) = 1
    /\ line_num = 1
    /\ is_issue_line
    /\ Len(LastWord(Strip(lines[1]))) > 4

\* C9: a line that reaches the parser gives a record exactly when it ends
\* with a parenthesised group without parentheses in it; the author is the
\* trimmed content of that group and the title the trimmed text before it;
\* any other line gives no record.
C9_ParseExactlyFinalGroup ==
    (Len(lines) = 1 /\ line_num = 1 /\ Strip(lines[1]) # <<>> /\ ~is_issue_line) =>
        IF EndsWithGroup(Strip(lines[1]))
        THEN /\ Len(records) = 1
             /\ records[1].Title = GroupTitle(Strip(lines[1]))
             /\ records[1].Published_As = GroupAuthor(Strip(lines[1]))
        ELSE records = <<>>

\* A line whose title holds an earlier group has been parsed.
C9_Witness ==
    /\ Len(lines) = 1
    /\ line_num = 1
    /\ Len(records) = 1
    /\ HasChar(records[1].Title, "(")
    /\ HasChar(records[1].Title, ")")

\* C10: in every final record Published_As is the raw byline formatted and
\* despelled, Author is that value with pen names resolved, and the pen-name
\* stage is not written back into Published_As.
C10_ColumnsFromRawByline ==
    (pc \in {"write", "done"}) =>
        /\ Len(stories) = Len(records)
        /\ \A i \in 1..Len(stories) :
               LET b == records[i].Published_As
                   despelled == change_aliases(last_first(b).value, spell_map)
               IN  /\ stories[i].Published_As = despelled
                   /\ stories[i].Author = change_aliases(despelled, pen_map)
                   /\ stories[i].Author = change_aliases(stories[i].Published_As, pen_map)

\* A final record whose byline was respelled and then resolved as a pen name.
C10_Witness ==
    /\ pc = "done"
    /\ \E i \in 1..Len(stories) :
           /\ stories[i].Published_As # last_first(records[i].Published_As).value
           /\ stories[i].Author # stories[i].Published_As

\* The positions of the commas of a name.
Commas(t) == {k \in 1..Len(t) : t[k] = ","}

\* The name is "L, R" with some text R without a comma, or that followed by
\* a comma, optional whitespace and a generational suffix.
CommaForm(t) ==
    LET cs == Commas(t)
    IN  \/ /\ Cardinality(cs) = 1
           /\ Strip(SubSeq(t, Max(cs) + 1, Len(t))) # <<>>
        \/ /\ Cardinality(cs) = 2
           /\ Strip(SubSeq(t, Min(cs) + 1, Max(cs) - 1)) # <<>>
           /\ Lower(Strip(SubSeq(t, Max(cs) + 1, Len(t)))) \in SuffixAlternatives

\* C11: last_first is idempotent on every name that contains a comma and on
\* which it returns: formatting the result again gives the same result.
C11_IdempotentOnAnyComma ==
    (pc = "last_first" /\ ret # None /\ ret[1].exc = "" /\ HasChar(name, ",")) =>
        last_first(ret[1].value) = ret[1]

\* C11, amended: last_first is idempotent on every name of the form "L, R",
\* with or without a trailing generational suffix, where R is not empty and
\* holds no comma.
C11_IdempotentOnCommaForm ==
    (pc = "last_first" /\ ret # None /\ ret[1].exc = "" /\ CommaForm(Strip(name))) =>
        last_first(ret[1].value) = ret[1]

\* A name "L, R" with a suffix after a second comma has been formatted, and
\* the result differs from the name.
C11_Witness ==
    /\ pc = "last_first"
    /\ ret # None
    /\ ret[1].exc = ""
    /\ CommaForm(Strip(name))
    /\ Cardinality(Commas(name)) = 2
    /\ ret[1].value # Strip(name)
    /\ HasChar(ret[1].value, ",")

\* The entries of pen_map other than i one of whose aliases occurs, the case
\* of letters disregarded, in the byline as printed or as formatted.
OtherMatching(i) ==
    {k \in (1..Len(pen_map)) \ {i} :
        \E j \in 1..Len(pen_map[k].aliases) :
            \/ OccursIgnoringCase(pen_map[k].aliases[j], name)
            \/ OccursIgnoringCase(pen_map[k].aliases[j], last_first(name).value)}

\* C12: with an empty spelling table, a byline that is exactly an alias of
\* one entry of the pen-name table, and of no other entry, is normalised to
\* the canonical name of that entry.
C12_AliasResolvesToCanonical ==
    (pc = "normalize_author" /\ ret # None /\ spell_map = <<>>) =>
        \A i \in 1..Len(pen_map) :
            ((\E j \in 1..Len(pen_map[i].aliases) : pen_map[i].aliases[j] = name)
             /\ OtherMatching(i) = {}) =>
                ret[1] = Returned(pen_map[i].real_name)

\* The particles of two words.
TwoWordParticles == {S("van der"), S("van den"), S("de la")}

\* C13: for a name without comma and without suffix whose tokens are one or
\* more given names, the two words of a two-word particle and a surname,
\* the result is the particle and the surname, a comma, and the given names.
C13_TwoWordParticleJoinsSurname ==
    (pc = "last_first" /\ ret # None /\ ~HasChar(name, ",")) =>
        LET w == Split(name)
            n == Len(w)
        IN  (/\ n >= 4
             /\ Lower(w[n - 2] \o S(" ") \o w[n - 1]) \in TwoWordParticles
             /\ Lower(w[n]) \notin SuffixAlternatives) =>
                ret[1] = Returned(w[n - 2] \o S(" ") \o w[n - 1] \o S(" ") \o w[n]
                                  \o S(", ") \o Join(S(" "), SubSeq(w, 1, n - 3)))

\* C14: the diagnostics are those of the unparsable lines, one for each, in
\* the order of the lines; each carries the position of its line in the
\* listing, counted from 1 over all lines, and the trimmed line.  Blank
\* lines, headers and story lines give no diagnostic.
C14_OneDiagnosticPerUnparsableLine ==
    LET unparsable == Of(Consumed, "unparsable")
    IN  /\ Len(diagnostics) = Cardinality(unparsable)
        /\ \A d \in 1..Len(diagnostics) :
               /\ diagnostics[d].line_num = Nth(unparsable, d)
               /\ diagnostics[d].line = Strip(lines[Nth(unparsable, d)])

\* The third line is reported, after a blank line and a header or a story.
C14_Witness ==
    /\ line_num = 3
    /\ Consumed[1] = "blank"
    /\ Consumed[2] \in {"header", "story"}
    /\ Consumed[3] = "unparsable"
    /\ Len(diagnostics) = 1
    /\ diagnostics[1].line_num = 3

\* C15: a step of the scan over a blank line or an unparsable line leaves
\* the current issue and the records unchanged; over a story line it adds
\* exactly one record at the end and leaves the current issue unchanged;
\* over a header it makes the trimmed line the current issue and leaves the
\* records unchanged, also when the header ends in a parenthesised group.
C15_ScanStepFrame ==
    [][(pc = "scan" /\ line_num' = line_num + 1) =>
          LET kind == Kind(Strip(lines[line_num + 1]))
          IN  /\ kind \in {"blank", "unparsable"} =>
                     /\ current_issue' = current_issue
                     /\ records' = records
              /\ kind = "story" =>
                     /\ current_issue' = current_issue
                     /\ Len(records') = Len(records) + 1
                     /\ SubSeq(records', 1, Len(records)) = records
              /\ kind = "header" =>
                     /\ current_issue' = Some(Strip(lines[line_num + 1]))
                     /\ records' = records]_vars

\* A header that ends in a parenthesised group has replaced an earlier
\* issue, after a story, and added no record.
C15_Witness ==
    /\ line_num = 3
    /\ Consumed[1] = "header"
    /\ Consumed[2] = "story"
    /\ Consumed[3] = "header"
    /\ EndsWithGroup(Strip(lines[3]))
    /\ current_issue = Some(Strip(lines[3]))
    /\ Strip(lines[3]) # Strip(lines[1])
    /\ Len(records) = 1

\* The position at which the last word of a name begins: after its last
\* comma or whitespace character.
LastWordStart(t) == Max({0} \cup {k \in 1..Len(t) : IsSpace(t[k]) \/ t[k] = ","}) + 1

\* A name part with its whitespace trimmed and each inner run of whitespace
\* written as one space.
OneSpaced(t) == Join(S(" "), Split(t))

\* C16: for a name "L, R" followed by a comma and optional whitespace, or
\* by whitespace, and then a generational suffix S in any letter case, with
\* L and R not empty and without comma, the result is "L, R S": the suffix
\* is taken off before the name is split at its comma.
C16_SuffixStrippedBeforeComma ==
    (pc = "last_first" /\ ret # None) =>
        LET t == Strip(name)
            cs == Commas(t)
            s == LastWordStart(t)
            suffix == SubSeq(t, s, Len(t))
            L == SubSeq(t, 1, Min(cs) - 1)
            R == IF Cardinality(cs) = 2
                 THEN SubSeq(t, Min(cs) + 1, Max(cs) - 1)
                 ELSE SubSeq(t, Min(cs) + 1, s - 1)
        IN  (/\ Cardinality(cs) \in {1, 2}
             /\ Lower(suffix) \in SuffixAlternatives
             /\ Cardinality(cs) = 2 => \A k \in (Max(cs) + 1)..(s - 1) : IsSpace(t[k])
             /\ Strip(L) # <<>>
             /\ Strip(R) # <<>>) =>
                ret[1] = Returned(OneSpaced(L) \o S(", ") \o OneSpaced(R)
                                  \o S(" ") \o suffix)

\* A name "L, R, S" has been formatted: the comma before the suffix is gone.
C16_Witness ==
    /\ pc = "last_first"
    /\ ret # None
    /\ ret[1].exc = ""
    /\ Cardinality(Commas(Strip(name))) = 2
    /\ Lower(SubSeq(Strip(name), LastWordStart(Strip(name)), Len(Strip(name))))
           \in SuffixAlternatives
    /\ Strip(SubSeq(Strip(name), 1, Min(Commas(Strip(name))) - 1)) # <<>>
    /\ Strip(SubSeq(Strip(name), Min(Commas(Strip(name))) + 1,
                    Max(Commas(Strip(name))) - 1)) # <<>>
    /\ Cardinality(Commas(ret[1].value)) = 1

\* Pen-name tables for a second run over the same listing.
OtherPenMaps ==
    {<<>>, PenNameTable,
     <<[real_name |-> S("Smith, George O."), aliases |-> <<S("smith")>>]>>}

\* Some alias of the pen-name table occurs in nm, the case of letters
\* disregarded.
PenAliasOccurs(nm) ==
    \E i \in 1..Len(pen_map) :
        \E j \in 1..Len(pen_map[i].aliases) :
            OccursIgnoringCase(pen_map[i].aliases[j], nm)

\* C17: a run over the same lines and the same spelling table with any
\* other pen-name table ends the same way and gives the same Year, Month,
\* Title and Published_As in every record; and a record in whose
\* Published_As no pen-name alias occurs has Author equal to Published_As.
C17_PublishedAsIgnoresPenNames ==
    /\ (pc = "done") =>
           /\ \A pens \in OtherPenMaps :
                  LET other == final_stories(lines, spell_map, pens)
                  IN  /\ other.exc = ""
                      /\ Len(other.value) = Len(stories)
                      /\ \A i \in 1..Len(stories) :
                             /\ other.value[i].Year = stories[i].Year
                             /\ other.value[i].Month = stories[i].Month
                             /\ other.value[i].Title = stories[i].Title
                             /\ other.value[i].Published_As = stories[i].Published_As
           /\ \A i \in 1..Len(stories) :
                  ~PenAliasOccurs(stories[i].Published_As) =>
                      stories[i].Author = stories[i].Published_As
    /\ (pc = "crashed") =>
           \A pens \in OtherPenMaps :
               final_stories(lines, spell_map, pens) = Raised(error)

\* A finished run with pen names, one record resolved to another author
\* and one record left as published.
C17_Witness ==
    /\ pc = "done"
    /\ pen_map # <<>>
    /\ \E i \in 1..Len(stories) : stories[i].Author # stories[i].Published_As
    /\ \E i \in 1..Len(stories) :
           /\ ~PenAliasOccurs(stories[i].Published_As)
           /\ stories[i].Author = stories[i].Published_As

\* The text begins with four digits and holds no whitespace.
YearWord(t) ==
    /\ Len(t) >= 4
    /\ \A k \in 1..4 : IsDigit(t[k])
    /\ \A k \in 1..Len(t) : ~IsSpace(t[k])

\* C18: no issue is current exactly until the first header is consumed, and
\* from then on a header is current: its text splits into exactly two
\* words, so the month and the year of a record never come from the
\* fallback of line 134.  In every record Month is empty or a month name,
\* Year is empty or a word that begins with four digits, both are empty or
\* neither is, and neither is empty in a record of a story line after the
\* first header.
C18_IssueIsHeaderOnceSet ==
    LET kinds == Consumed
        story == Of(kinds, "story")
        header == Of(kinds, "header")
    IN  /\ current_issue = None <=> header = {}
        /\ current_issue # None =>
               /\ current_issue = Some(Strip(lines[Max(header)]))
               /\ Len(Split(current_issue[1])) = 2
               /\ IssueParts(current_issue).month = FirstWord(current_issue[1])
               /\ IssueParts(current_issue).year = LastWord(current_issue[1])
        /\ \A j \in 1..Len(records) :
               /\ records[j].Month = <<>> \/ records[j].Month \in months
               /\ records[j].Year = <<>> \/ YearWord(records[j].Year)
               /\ records[j].Month = <<>> <=> records[j].Year = <<>>
               /\ (j <= Cardinality(story) /\ \E h \in header : h < Nth(story, j)) =>
                      /\ records[j].Month # <<>>
                      /\ records[j].Year # <<>>

\* A record without issue, then a header with two spaces between month and
\* year, then a record of that issue.
C18_Witness ==
    /\ line_num = 3
    /\ Consumed[1] = "story"
    /\ Consumed[2] = "header"
    /\ Consumed[3] = "story"
    /\ Len(Strip(lines[2])) > Len(FirstWord(Strip(lines[2]))) + 1 + Len(LastWord(Strip(lines[2])))
    /\ Len(records) = 2
    /\ records[1].Month = <<>>
    /\ records[2].Month = S("August")
    /\ records[2].Year = ArabicIndic1940

====
